---- MODULE Spec2Model ----
(***************************************************************************)
(* A model of the resume parser: the text analyzer (section segmenter and  *)
(* the identity, summary, experience and education extractors), the skill  *)
(* extractor (taxonomy, alias table, skills and projects), the confidence  *)
(* aggregator and the parse_resume request handler with its result cache.  *)
(*                                                                         *)
(* Texts are strings.  A character is a string of length one, At(s, i) is  *)
(* the i-th character (1-based) and SubSeq(s, i, j) a slice.  Python's     *)
(* regular expressions are modelled by a backtracking matcher over pattern *)
(* values, so that each pattern of the source is one definition here, and  *)
(* the leftmost match with the same greedy/lazy priorities is returned.    *)
(* The alphabet is ASCII: the en dash of the source's [-–] classes cannot  *)
(* be written in a string of this language and no input contains it.       *)
(* Confidences are integers in units of 1/ConfScale.                       *)
(***************************************************************************)
EXTENDS Integers, Sequences, FiniteSets, TLC

(***************************************************************************)
(* Characters and Python's str methods                                     *)
(***************************************************************************)
UpperAlphabet == "ABCDEFGHIJKLMNOPQRSTUVWXYZ"
LowerAlphabet == "abcdefghijklmnopqrstuvwxyz"
DigitAlphabet == "0123456789"

At(s, i) == SubSeq(s, i, i)

CharsOf(s) == {At(s, i) : i \in 1..Len(s)}

Uppers == CharsOf(UpperAlphabet)
Lowers == CharsOf(LowerAlphabet)
Digits == CharsOf(DigitAlphabet)
SpaceChars == {" ", "\n", "\t"}
WordChars == Uppers \cup Lowers \cup Digits \cup {"_"}
DashChars == {"-"}

ToLowerMap == [c \in Uppers |->
                 At(LowerAlphabet, CHOOSE i \in 1..Len(UpperAlphabet) : At(UpperAlphabet, i) = c)]
ToUpperMap == [c \in Lowers |->
                 At(UpperAlphabet, CHOOSE i \in 1..Len(LowerAlphabet) : At(LowerAlphabet, i) = c)]

LowerChar(c) == IF c \in Uppers THEN ToLowerMap[c] ELSE c
UpperChar(c) == IF c \in Lowers THEN ToUpperMap[c] ELSE c

RECURSIVE LowerRange(_, _, _)
LowerRange(s, lo, hi) ==
  IF lo > hi THEN ""
  ELSE IF lo = hi THEN LowerChar(At(s, lo))
  ELSE LowerRange(s, lo, (lo + hi) \div 2) \o LowerRange(s, (lo + hi) \div 2 + 1, hi)

\* str.lower()
Lower(s) == LowerRange(s, 1, Len(s))

\* sub in s
Contains(sub, s) == \E i \in 1..(Len(s) - Len(sub) + 1) : SubSeq(s, i, i + Len(sub) - 1) = sub

\* a prefix test that never succeeds
NeverStartsWith(s, p) == FALSE

StartsWith(s, p) == Len(s) >= Len(p) /\ SubSeq(s, 1, Len(p)) = p
EndsWith(s, p) == Len(s) >= Len(p) /\ SubSeq(s, Len(s) - Len(p) + 1, Len(s)) = p

\* str.strip()
Strip(s) ==
  LET keep == {i \in 1..Len(s) : At(s, i) \notin SpaceChars}
  IN  IF keep = {} THEN ""
      ELSE SubSeq(s, CHOOSE i \in keep : \A j \in keep : i <= j,
                     CHOOSE i \in keep : \A j \in keep : j <= i)

\* the j-th smallest element of a finite set of integers
Nth(S, j) == CHOOSE p \in S : Cardinality({q \in S : q < p}) = j - 1

\* str.split(sep) for a one-character separator: "" splits to <<"">>
Split(s, sep) ==
  LET cuts == {i \in 1..Len(s) : At(s, i) = sep}
      n == Cardinality(cuts)
      cut(j) == IF j = 0 THEN 0 ELSE IF j = n + 1 THEN Len(s) + 1 ELSE Nth(cuts, j)
  IN  [j \in 1..(n + 1) |-> SubSeq(s, cut(j - 1) + 1, cut(j) - 1)]

\* str.split(): the whitespace-separated words
Words(s) ==
  LET IsSp(i) == i < 1 \/ i > Len(s) \/ At(s, i) \in SpaceChars
      starts == {i \in 1..Len(s) : ~IsSp(i) /\ IsSp(i - 1)}
      ends == {i \in 1..Len(s) : ~IsSp(i) /\ IsSp(i + 1)}
  IN  [j \in 1..Cardinality(starts) |-> SubSeq(s, Nth(starts, j), Nth(ends, j))]

RECURSIVE Join(_, _)
Join(sep, parts) ==
  IF parts = <<>> THEN ""
  ELSE IF Len(parts) = 1 THEN parts[1]
  ELSE parts[1] \o sep \o Join(sep, Tail(parts))

\* str.isdigit(): non-empty and all digits
IsDigit(s) == s # "" /\ \A i \in 1..Len(s) : At(s, i) \in Digits

(***************************************************************************)
(* Regular expressions (Python's re): a pattern is a sequence of items     *)
(*   Cls    a character class with a quantifier {min,max} (max -1: no      *)
(*          limit), greedy or lazy                                         *)
(*   Open/Close  the parentheses of capture group g                        *)
(*   Alt    alternatives, tried in order                                   *)
(*   Rep1   (?:sub)+, greedy                                               *)
(*   Bol, Eol, Wb   ^, $ and \b                                            *)
(* Python's matcher backtracks: at every choice it takes the first option  *)
(* (fewest characters first for a lazy quantifier, most first for a greedy *)
(* one, alternatives left to right) from which the rest of the pattern can *)
(* still match.  The model computes the same match in two passes: Back     *)
(* gives, for every item, the positions from which the rest of the pattern *)
(* can match, and Walk then takes the first such option at every item.     *)
(* Both split the pattern in halves so that evaluation stays shallow.      *)
(***************************************************************************)
Cls(cs, neg, min, max, lazy) ==
  [k |-> "cls", cs |-> cs, neg |-> neg, min |-> min, max |-> max, lazy |-> lazy]
One(cs) == Cls(cs, FALSE, 1, 1, FALSE)
Ch(c) == One({c})
Opt(cs) == Cls(cs, FALSE, 0, 1, FALSE)
Star(cs) == Cls(cs, FALSE, 0, -1, FALSE)
Plus(cs) == Cls(cs, FALSE, 1, -1, FALSE)
Times(cs, n) == Cls(cs, FALSE, n, n, FALSE)
Between(cs, min, max) == Cls(cs, FALSE, min, max, FALSE)
\* .+? : any character but a newline, one or more, lazily
DotPlusLazy == Cls({"\n"}, TRUE, 1, -1, TRUE)
Open(g) == [k |-> "open", g |-> g]
Close(g) == [k |-> "close", g |-> g]
Alt(alts) == [k |-> "alt", alts |-> alts]
Rep1(sub) == [k |-> "rep", sub |-> sub]
Bol == [k |-> "bol"]
Eol == [k |-> "eol"]
Wb == [k |-> "wb"]

\* a literal string (re.escape)
Lit(s) == [i \in 1..Len(s) |-> Ch(At(s, i))]

\* c is matched by class item h; under re.IGNORECASE a letter matches in either case
CharIn(c, h, ic) ==
  LET hit == c \in h.cs \/ (ic /\ (LowerChar(c) \in h.cs \/ UpperChar(c) \in h.cs))
  IN  hit # h.neg

RECURSIVE FirstMiss(_, _, _, _, _)
\* the first position in lo..hi whose character class item h does not match, else hi + 1
FirstMiss(h, s, lo, hi, ic) ==
  IF lo > hi THEN lo
  ELSE IF lo = hi THEN (IF CharIn(At(s, lo), h, ic) THEN hi + 1 ELSE lo)
  ELSE LET mid == (lo + hi) \div 2
           l == FirstMiss(h, s, lo, mid, ic)
       IN  IF l <= mid THEN l ELSE FirstMiss(h, s, mid + 1, hi, ic)

RECURSIVE LastMiss(_, _, _, _, _)
\* the last position in lo..hi whose character class item h does not match, else lo - 1
LastMiss(h, s, lo, hi, ic) ==
  IF lo > hi THEN hi
  ELSE IF lo = hi THEN (IF CharIn(At(s, lo), h, ic) THEN lo - 1 ELSE lo)
  ELSE LET mid == (lo + hi) \div 2
           r == LastMiss(h, s, mid + 1, hi, ic)
       IN  IF r > mid THEN r ELSE LastMiss(h, s, lo, mid, ic)

\* how many characters from i on (at most h.max) class item h matches
RunLen(h, s, i, ic) ==
  LET hi == IF h.max = -1 \/ i + h.max - 1 > Len(s) THEN Len(s) ELSE i + h.max - 1
  IN  FirstMiss(h, s, i, hi, ic) - i

\* how many characters before a (at most h.max) class item h matches
BackRun(h, s, a, ic) ==
  LET lo == IF h.max = -1 \/ a - h.max < 1 THEN 1 ELSE a - h.max
  IN  a - 1 - LastMiss(h, s, lo, a - 1, ic)

IsWordAt(s, i) == i >= 1 /\ i <= Len(s) /\ At(s, i) \in WordChars

\* $ : at the end, or before a newline that ends the string
AtEol(s, i) == i = Len(s) + 1 \/ (i = Len(s) /\ At(s, i) = "\n")

\* \b : between a word character and a non-word character (or an end of the string)
AtWb(s, i) == IsWordAt(s, i - 1) # IsWordAt(s, i)

RECURSIVE BackItem(_, _, _, _)
RECURSIVE BackRange(_, _, _, _, _, _)
RECURSIVE RepClosure(_, _, _, _, _)

\* acc[k], k in 1..Len(pat)+1: the positions from which items k.. of pat can match and
\* end at a position of A
Back(pat, s, A, ic) ==
  IF pat = <<>> THEN <<A>> ELSE BackRange(pat, 1, Len(pat), s, A, ic) \o <<A>>

\* the positions from which item h can match and end at a position of A
BackItem(h, s, A, ic) ==
  CASE h.k = "cls" -> UNION {{a - c : c \in h.min..BackRun(h, s, a, ic)} : a \in A}
    [] h.k = "open" -> A
    [] h.k = "close" -> A
    [] h.k = "alt" -> UNION {Back(h.alts[j], s, A, ic)[1] : j \in 1..Len(h.alts)}
    [] h.k = "rep" -> Back(h.sub, s, RepClosure(h.sub, s, A, {}, ic), ic)[1]
    [] h.k = "bol" -> A \cap {1}
    [] h.k = "eol" -> {i \in A : AtEol(s, i)}
    [] h.k = "wb" -> {i \in A : AtWb(s, i)}

\* the entries lo..hi of Back's result, A being the positions after item hi
BackRange(pat, lo, hi, s, A, ic) ==
  IF lo = hi THEN <<BackItem(pat[lo], s, A, ic)>>
  ELSE LET mid == (lo + hi) \div 2
           r == BackRange(pat, mid + 1, hi, s, A, ic)
       IN  IF r[1] = {} THEN [k \in 1..(mid - lo + 1) |-> {}] \o r
           ELSE BackRange(pat, lo, mid, s, r[1], ic) \o r

\* the positions from which zero or more matches of sub end at a position of A
RepClosure(sub, s, A, W, ic) ==
  LET W2 == W \cup A \cup (IF W = {} THEN {} ELSE Back(sub, s, W, ic)[1])
  IN  IF W2 = W THEN W ELSE RepClosure(sub, s, A, W2, ic)

MinOf(S) == CHOOSE x \in S : \A y \in S : x <= y
MaxOf(S) == CHOOSE x \in S : \A y \in S : y <= x

RECURSIVE WalkRange(_, _, _, _, _, _, _, _)
RECURSIVE RepWalk(_, _, _, _, _, _, _)

\* the match of pat at i that backtracking finds, i being in Back(pat, s, A, ic)[1]:
\* its end, its groups (<<start, end, start of the open parenthesis>>, end exclusive)
\* and the group closed last
Walk(pat, s, i, A, m, ic) ==
  IF pat = <<>> THEN [m EXCEPT !.end = i]
  ELSE WalkRange(pat, 1, Len(pat), s, [m EXCEPT !.end = i], Back(pat, s, A, ic), A, ic)

WalkRange(pat, lo, hi, s, m, acc, A, ic) ==
  IF lo < hi
  THEN LET mid == (lo + hi) \div 2
           l == WalkRange(pat, lo, mid, s, m, acc, A, ic)
       IN  IF l.end = -1 THEN l ELSE WalkRange(pat, mid + 1, hi, s, l, acc, A, ic)
  ELSE
    LET h == pat[lo]
        i == m.end
        after == acc[lo + 1]
    IN  CASE h.k = "cls" ->
               LET ok == {c \in h.min..RunLen(h, s, i, ic) : i + c \in after}
               IN  [m EXCEPT !.end = i + (IF h.lazy THEN MinOf(ok) ELSE MaxOf(ok))]
          [] h.k = "open" -> [m EXCEPT !.caps[h.g] = <<@[1], @[2], i>>]
          [] h.k = "close" -> [m EXCEPT !.caps[h.g] = <<@[3], i, @[3]>>, !.last = h.g]
          [] h.k = "alt" ->
               LET j == MinOf({x \in 1..Len(h.alts) : i \in Back(h.alts[x], s, after, ic)[1]})
               IN  Walk(h.alts[j], s, i, after, m, ic)
          [] h.k = "rep" ->
               RepWalk(h.sub, s, Walk(h.sub, s, i, RepClosure(h.sub, s, after, {}, ic), m, ic),
                       after, RepClosure(h.sub, s, after, {}, ic), h, ic)
          [] OTHER -> m

\* after one match of sub: another one while the rest can still match after it
RepWalk(sub, s, m, after, W, h, ic) ==
  IF m.end \in Back(sub, s, W, ic)[1] THEN RepWalk(sub, s, Walk(sub, s, m.end, W, m, ic), after, W, h, ic)
  ELSE m

NoCaps(ng) == [g \in 1..ng |-> <<0, 0, 0>>]

\* no match
NoMatch == [start |-> 0, end |-> -1, caps |-> <<>>, last |-> 0]

\* the match of pat that starts at i
MatchAt(pat, ng, s, i, ic) ==
  [Walk(pat, s, i, 1..(Len(s) + 1), [start |-> i, end |-> i, caps |-> NoCaps(ng), last |-> 0], ic)
     EXCEPT !.start = i]

\* re.match: the pattern at the start of s; end = -1 when it does not match
ReMatch(pat, ng, s, ic) ==
  IF 1 \in Back(pat, s, 1..(Len(s) + 1), ic)[1] THEN MatchAt(pat, ng, s, 1, ic) ELSE NoMatch

RECURSIVE FindFrom(_, _, _, _, _, _)
\* the match m, and the matches after it: the search goes on at its end, one further
\* when it is empty
FindNext(pat, ng, s, m, starts, ic) ==
  <<m>> \o FindFrom(pat, ng, s, IF m.end > m.start THEN m.end ELSE m.end + 1, starts, ic)

\* the matches that start at a position of cand, cand being the positions of starts
\* that the search has not passed
FindAmong(pat, ng, s, cand, starts, ic) ==
  IF cand = {} THEN <<>> ELSE FindNext(pat, ng, s, MatchAt(pat, ng, s, MinOf(cand), ic), starts, ic)

\* the matches from position i on, starts being the positions where pat matches
FindFrom(pat, ng, s, i, starts, ic) ==
  FindAmong(pat, ng, s, {x \in starts : x >= i}, starts, ic)

\* re.finditer: the non-overlapping matches, left to right
FindIter(pat, ng, s, ic) == FindFrom(pat, ng, s, 1, Back(pat, s, 1..(Len(s) + 1), ic)[1], ic)

\* the match at the least position of starts
MatchFirst(pat, ng, s, starts, ic) ==
  IF starts = {} THEN NoMatch ELSE MatchAt(pat, ng, s, MinOf(starts), ic)

\* re.search: the leftmost match; end = -1 when there is none
ReSearch(pat, ng, s, ic) == MatchFirst(pat, ng, s, Back(pat, s, 1..(Len(s) + 1), ic)[1], ic)

\* match.group(g); group 0 is the whole match; a group that did not match is ""
Group(s, m, g) ==
  IF g = 0 THEN SubSeq(s, m.start, m.end - 1)
  ELSE IF m.caps[g][1] = 0 THEN ""
  ELSE SubSeq(s, m.caps[g][1], m.caps[g][2] - 1)

\* re.findall: group 1 of each match when the pattern has a group, else the match
GroupsOf(s, ms, g) == [j \in 1..Len(ms) |-> Group(s, ms[j], g)]
FindAll(pat, ng, s, ic) == GroupsOf(s, FindIter(pat, ng, s, ic), IF ng = 0 THEN 0 ELSE 1)

(***************************************************************************)
(* Python dicts keep insertion order: a dict is a sequence of <<key, value>>*)
(* pairs; assigning to a key that is present replaces its value in place.  *)
(***************************************************************************)
DictHas(d, key) == \E j \in 1..Len(d) : d[j][1] = key

\* an assignment that adds to the value already under the key
DictMerge(d, key, val) ==
  IF DictHas(d, key)
  THEN [j \in 1..Len(d) |-> IF d[j][1] = key THEN <<key, d[j][2] \o "\n" \o val>> ELSE d[j]]
  ELSE Append(d, <<key, val>>)

\* d[key] = val
DictSet(d, key, val) ==
  IF DictHas(d, key) THEN [j \in 1..Len(d) |-> IF d[j][1] = key THEN <<key, val>> ELSE d[j]]
  ELSE Append(d, <<key, val>>)

DictGet(d, key) == d[CHOOSE j \in 1..Len(d) : d[j][1] = key][2]

\* the first j in 1..n with P[j], else 0 (P a sequence of booleans)
FirstTrue(P) ==
  IF \E j \in 1..Len(P) : P[j] THEN MinOf({j \in 1..Len(P) : P[j]}) ELSE 0

\* the elements of seq at the indices in S, in order
Pick(seq, S) == [j \in 1..Cardinality(S) |-> seq[Nth(S, j)]]

\* the non-empty stripped lines of s
StrippedLines(s) ==
  LET ls == Split(s, "\n")
      st == [j \in 1..Len(ls) |-> Strip(ls[j])]
  IN  Pick(st, {j \in 1..Len(st) : st[j] # ""})

(***************************************************************************)
(* Confidences: floats of the source in units of 1/ConfScale               *)
(***************************************************************************)
ConfScale == 10 * 32
Tenths(n) == n * (ConfScale \div 10)
MinInt(a, b) == IF a <= b THEN a ELSE b

(***************************************************************************)
(* TextAnalyzer                                                            *)
(***************************************************************************)
Letters == Uppers \cup Lowers
AlNum == Letters \cup Digits
HexChars == Digits \cup CharsOf("abcdefABCDEF")
PhoneSep == {"-", "."} \cup SpaceChars

\* r'\b[A-Za-z0-9._%+-]+@[A-Za-z0-9.-]+\.[A-Z|a-z]{2,}\b'
EmailPattern ==
  <<Wb, Plus(AlNum \cup {".", "_", "%", "+", "-"}), Ch("@"), Plus(AlNum \cup {".", "-"}),
    Ch("."), Cls(Letters \cup {"|"}, FALSE, 2, -1, FALSE), Wb>>

\* r'https?://(?:[-\w.]|(?:%[\da-fA-F]{2}))+'
UrlPattern ==
  Lit("http") \o <<Opt({"s"})>> \o Lit("://") \o
  <<Rep1(<<Alt(<< <<One(WordChars \cup {"-", "."})>>, <<Ch("%"), Times(HexChars, 2)>> >>)>>)>>

\* r'linkedin\.com/in/[\w-]+'
LinkedinPattern == Lit("linkedin.com/in/") \o <<Plus(WordChars \cup {"-"})>>

\* r'github\.com/[\w-]+'
GithubPattern == Lit("github.com/") \o <<Plus(WordChars \cup {"-"})>>

\* r'(\+?\d{1,3}[-.\s]?)?\(?\d{3}\)?[-.\s]?\d{3}[-.\s]?\d{4}'
PhonePattern ==
  <<Alt(<< <<Open(1), Opt({"+"}), Between(Digits, 1, 3), Opt(PhoneSep), Close(1)>>, <<>> >>),
    Opt({"("}), Times(Digits, 3), Opt({")"}), Opt(PhoneSep), Times(Digits, 3), Opt(PhoneSep),
    Times(Digits, 4)>>

CommaGap == <<Ch(","), Star(SpaceChars)>>
\* r'(\w+,\s*\w+,\s*\w+,\s*\d+)', r'(\w+,\s*\w+,\s*\w+)', r'(\w+,\s*\w+)'
LocationPatterns ==
  << <<Open(1), Plus(WordChars)>> \o CommaGap \o <<Plus(WordChars)>> \o CommaGap \o
       <<Plus(WordChars)>> \o CommaGap \o <<Plus(Digits), Close(1)>>,
     <<Open(1), Plus(WordChars)>> \o CommaGap \o <<Plus(WordChars)>> \o CommaGap \o
       <<Plus(WordChars), Close(1)>>,
     <<Open(1), Plus(WordChars)>> \o CommaGap \o <<Plus(WordChars), Close(1)>> >>

\* re.sub(r'[^\d+]', '', phone)
PhoneClean(phone) ==
  LET keep == {i \in 1..Len(phone) : At(phone, i) \in Digits \cup {"+"}}
  IN  Join("", [j \in 1..Cardinality(keep) |-> At(phone, Nth(keep, j))])

NameStopwords == <<"phone", "email", "linkedin", "github", "summary", "experience">>

\* any(keyword in s for keyword in keywords)
AnyIn(keywords, s) == \E j \in 1..Len(keywords) : Contains(keywords[j], s)

\* the test of a name line: not empty, no contact keyword, 2-4 words, each capitalized
IsNameLine(line) ==
  /\ line # ""
  /\ ~AnyIn(NameStopwords, Lower(line))
  /\ LET words == Words(line)
     IN  /\ 2 <= Len(words) /\ Len(words) <= 4
         /\ \A j \in 1..Len(words) : At(words[j], 1) \in Uppers

EmptyPersonalInfo ==
  [first_name |-> "", last_name |-> "", full_name |-> "", email |-> "", phone |-> "",
   location |-> "", linkedin |-> "", github |-> "", portfolio |-> ""]

\* the candidate that extract_personal_info accepts: the first of the findall results
\* whose cleaned form has 10 characters or more; 0 when there is none
AcceptedPhone(phones) ==
  FirstTrue([j \in 1..Len(phones) |-> Len(PhoneClean(phones[j])) >= 10])

\* sum(confidence_factors) if confidence_factors else 0.0
RECURSIVE SumSeq(_, _)
SumSeq(factors, n) == IF n = 0 THEN 0 ELSE factors[n] + SumSeq(factors, n - 1)

\* the assignments of extract_personal_info, given what its searches found
PersonalInfoFrom(emails, phones, urls, linkedin_links, github_links, lines, locs) ==
  LET phoneAt == AcceptedPhone(phones)
      other == {j \in 1..Len(urls) : ~Contains("linkedin", urls[j]) /\ ~Contains("github", urls[j])}
      first5 == [j \in 1..MinInt(5, Len(lines)) |-> Strip(lines[j])]
      nameAt == FirstTrue([j \in 1..Len(first5) |-> IsNameLine(first5[j])])
      name_parts == IF nameAt = 0 THEN <<>> ELSE Words(first5[nameAt])
      locAt == FirstTrue([j \in 1..Len(locs) |-> locs[j] # <<>>])
      info == [first_name |-> IF nameAt = 0 THEN "" ELSE name_parts[1],
               last_name |-> IF nameAt = 0 THEN "" ELSE name_parts[Len(name_parts)],
               full_name |-> IF nameAt = 0 THEN "" ELSE first5[nameAt],
               email |-> IF emails = <<>> THEN "" ELSE emails[1],
               phone |-> IF phoneAt = 0 THEN "" ELSE phones[phoneAt],
               location |-> IF locAt = 0 THEN "" ELSE locs[locAt][1],
               linkedin |-> IF linkedin_links = <<>> THEN "" ELSE "https://" \o linkedin_links[1],
               github |-> IF github_links = <<>> THEN "" ELSE "https://" \o github_links[1],
               portfolio |-> IF other = {} THEN "" ELSE urls[MinOf(other)]]
      \* confidence_factors, in the order appended when triggered
      factors == (IF emails # <<>> THEN <<Tenths(3)>> ELSE <<>>) \o
                 (IF phoneAt # 0 THEN <<Tenths(2)>> ELSE <<>>) \o
                 (IF nameAt # 0 THEN <<Tenths(3)>> ELSE <<>>) \o
                 (IF locAt # 0 THEN <<Tenths(2)>> ELSE <<>>)
  IN  [data |-> info, confidence |-> SumSeq(factors, Len(factors)), factors |-> factors]

\* the searches of extract_personal_info, each run once over the text
extract_personal_info(text) ==
  PersonalInfoFrom(FindAll(EmailPattern, 0, text, FALSE),
                   FindAll(PhonePattern, 1, text, FALSE),
                   FindAll(UrlPattern, 0, text, FALSE),
                   FindAll(LinkedinPattern, 0, text, FALSE),
                   FindAll(GithubPattern, 0, text, FALSE),
                   Split(text, "\n"),
                   [j \in 1..Len(LocationPatterns) |-> FindAll(LocationPatterns[j], 1, text, FALSE)])

\* re.compile(r'^[A-Z][A-Z\s]{2,}$')
SectionPattern == <<Bol, One(Uppers), Cls(Uppers \cup SpaceChars, FALSE, 2, -1, FALSE), Eol>>

SectionKeywords == {"summary", "experience", "education", "skills", "projects", "certifications"}

\* whether a stripped line is a section header
IsHeading(line) ==
  ReMatch(SectionPattern, 0, line, FALSE).end # -1 \/ Lower(line) \in SectionKeywords

RECURSIVE SplitLoop(_, _, _, _, _)
\* the loop of _split_into_sections from line j on
SplitLoop(lines, j, sections, current_section, current_content) ==
  LET flushed == IF current_content # <<>> /\ current_section # ""
                 THEN DictSet(sections, current_section, Join("\n", current_content))
                 ELSE sections
  IN  IF j > Len(lines) THEN flushed
      ELSE IF IsHeading(lines[j])
      THEN SplitLoop(lines, j + 1, flushed, Lower(lines[j]), <<>>)
      ELSE SplitLoop(lines, j + 1, sections, current_section, Append(current_content, lines[j]))

\* a segmenter that starts with no current section: the lines before the first
\* header are not saved
SplitUnnamedStart(text) == SplitLoop(StrippedLines(text), 1, <<>>, "", <<>>)

\* TextAnalyzer._split_into_sections (SkillExtractor has a copy of it)
split_into_sections(text) == SplitLoop(StrippedLines(text), 1, <<>>, "header", <<>>)

SummaryKeywords == <<"summary", "objective", "about", "profile">>
ContactMarkers == <<"@", "phone", "email", "linkedin">>
SectionWords == <<"experience", "education", "skills", "projects">>
\* "len(line) > 50"
SummaryMinLen == 50

\* a summary taken from a summary section only, without the fallback scan
SummarySectionOnly(text) ==
  LET sections == split_into_sections(text)
      hit == FirstTrue([j \in 1..Len(sections) |-> AnyIn(SummaryKeywords, Lower(sections[j][1]))])
  IN  IF hit # 0 THEN [data |-> StrippedLines(sections[hit][2])[1], confidence |-> Tenths(8)]
      ELSE [data |-> "", confidence |-> Tenths(3)]

\* TextAnalyzer.extract_summary
extract_summary(text) ==
  LET sections == split_into_sections(text)
      paragraphs(j) == StrippedLines(sections[j][2])
      hit == FirstTrue([j \in 1..Len(sections) |->
                          AnyIn(SummaryKeywords, Lower(sections[j][1])) /\ paragraphs(j) # <<>>])
      lines == StrippedLines(text)
      \* found_name when line j is reached: an earlier line holds a contact marker
      found_name(j) == \E q \in 1..(j - 1) : AnyIn(ContactMarkers, Lower(lines[q]))
      cand == {j \in 1..Len(lines) : /\ found_name(j)
                                     /\ Len(lines[j]) > SummaryMinLen
                                     /\ ~AnyIn(SectionWords, Lower(lines[j]))}
  IN  IF hit # 0 THEN [data |-> paragraphs(hit)[1], confidence |-> Tenths(8)]
      ELSE IF cand # {} THEN [data |-> lines[MinOf(cand)], confidence |-> Tenths(6)]
      ELSE [data |-> "", confidence |-> Tenths(3)]

MonthMap ==
  << <<"jan", "01">>, <<"feb", "02">>, <<"mar", "03">>, <<"apr", "04">>, <<"may", "05">>,
     <<"jun", "06">>, <<"jul", "07">>, <<"aug", "08">>, <<"sep", "09">>, <<"oct", "10">>,
     <<"nov", "11">>, <<"dec", "12">> >>

\* r'(\d{4})'
YearPattern == <<Open(1), Times(Digits, 4), Close(1)>>

\* TextAnalyzer._parse_date
parse_date(date_str) ==
  LET d == Strip(date_str)
      months == {j \in 1..Len(MonthMap) : Contains(MonthMap[j][1], Lower(d))}
      year_match == ReSearch(YearPattern, 1, d, FALSE)
  IN  IF d = "" \/ Lower(d) = "present" THEN "Present"
      ELSE IF months # {} /\ year_match.end # -1
      THEN MonthMap[MinOf(months)][2] \o "/" \o Group(d, year_match, 1)
      ELSE IF year_match.end # -1 THEN "01/" \o Group(d, year_match, 1)
      ELSE d

\* TextAnalyzer._detect_employment_type
detect_employment_type(job_title) ==
  LET t == Lower(job_title)
  IN  IF Contains("intern", t) THEN "internship"
      ELSE IF AnyIn(<<"freelance", "contract", "consultant">>, t) THEN "contract"
      ELSE IF Contains("part", t) /\ Contains("time", t) THEN "part-time"
      ELSE "full-time"

\* . with a greedy star
DotStar == Cls({"\n"}, TRUE, 0, -1, FALSE)

\* r'.*[\(\)].*\d{4}.*'
NextEntryPattern == <<DotStar, One({"(", ")"}), DotStar, Times(Digits, 4), DotStar>>

\* "len(line) < 10", "len(line) > 20", "len(descriptions) >= 3"
DescStopLen == 10
DescMinLen == 20
MaxBullets == 3

\* TextAnalyzer._extract_job_description
extract_job_description(text, job_context) ==
  LET lines == StrippedLines(text)
      IsCtx(j) == Contains(job_context, lines[j])
      ctx == {j \in 1..Len(lines) : IsCtx(j)}
      \* the lines read with found_job set
      read == {j \in 1..Len(lines) : ctx # {} /\ j > MinOf(ctx) /\ ~IsCtx(j)}
      stops == {j \in read : \/ ReMatch(NextEntryPattern, 0, lines[j], FALSE).end # -1
                             \/ Len(lines[j]) < DescStopLen}
      kept == {j \in read : /\ stops # {} => j < MinOf(stops)
                            /\ Len(lines[j]) > DescMinLen
                            /\ ~StartsWith(lines[j], "-")}
      bullets == Pick(lines, kept)
  IN  SubSeq(bullets, 1, MinInt(MaxBullets, Len(bullets)))

\* (\w+\s*\d{4})
DateToken == <<Plus(WordChars), Star(SpaceChars), Times(Digits, 4)>>
DashGap == <<Star(SpaceChars), One(DashChars), Star(SpaceChars)>>

\* r'(.+?)\s*[-–]\s*(.+?)\s*\((\w+\s*\d{4})\s*[-–]\s*(\w+\s*\d{4}|Present)\)'
\* r'(.+?)\s+at\s+(.+?)\s*\((\w+\s*\d{4})\s*[-–]\s*(\w+\s*\d{4}|Present)\)'
JobPatterns ==
  << <<Open(1), DotPlusLazy, Close(1)>> \o DashGap \o
       <<Open(2), DotPlusLazy, Close(2), Star(SpaceChars), Ch("("), Open(3)>> \o DateToken \o
       <<Close(3)>> \o DashGap \o <<Open(4), Alt(<<DateToken, Lit("Present")>>), Close(4), Ch(")")>>,
     <<Open(1), DotPlusLazy, Close(1), Plus(SpaceChars)>> \o Lit("at") \o
       <<Plus(SpaceChars), Open(2), DotPlusLazy, Close(2), Star(SpaceChars), Ch("("), Open(3)>> \o
       DateToken \o <<Close(3)>> \o DashGap \o
       <<Open(4), Alt(<<DateToken, Lit("Present")>>), Close(4), Ch(")")>> >>

ExpKeywords == <<"experience", "work", "employment">>

\* the section the extractor reads: the first whose title holds a keyword, else the whole text
FindSection(text, keywords) ==
  LET sections == split_into_sections(text)
      at == FirstTrue([j \in 1..Len(sections) |-> AnyIn(keywords, sections[j][1])])
  IN  IF at = 0 \/ sections[at][2] = "" THEN text ELSE sections[at][2]

\* the group that becomes job_title, and the one that becomes company
JobTitleGroup(has_at) == IF has_at THEN 2 ELSE 1
CompanyGroup(has_at) == IF has_at THEN 1 ELSE 2

\* the dict built from one match of a job pattern
ExperienceEntry(exp_section, m) ==
  LET g0 == Group(exp_section, m, 0)
      has_at == Contains(" at ", g0)
  IN  [job_title |-> Strip(Group(exp_section, m, JobTitleGroup(has_at))),
       company |-> Strip(Group(exp_section, m, CompanyGroup(has_at))),
       start_date |-> parse_date(Group(exp_section, m, 3)),
       end_date |-> IF Group(exp_section, m, 4) # "Present"
                    THEN parse_date(Group(exp_section, m, 4)) ELSE "Present",
       type |-> detect_employment_type(Group(exp_section, m, JobTitleGroup(has_at))),
       location |-> "",
       description |-> extract_job_description(exp_section, g0),
       skills_gained |-> <<>>]

\* "len(experiences) * 0.3", "len(education) * 0.3"
EntryTenths == 3

\* a confidence without the cap at 1.0
UncappedConfidence(n, tenths) == n * Tenths(tenths)
\* min(n * tenths / 10, 1.0)
CountConfidence(n, tenths) == MinInt(n * Tenths(tenths), ConfScale)

\* if match.lastindex >= need
MatchesWith(ms, need) == Pick(ms, {j \in 1..Len(ms) : ms[j].last >= need})

\* the entries with min(len(entries) * tenths / 10, 1.0)
WithCount(entries, tenths) ==
  [data |-> entries, confidence |-> CountConfidence(Len(entries), tenths)]

\* for pattern in patterns: for match in re.finditer(pattern, section, re.IGNORECASE)
\* the matches with "match.lastindex >= need"
MatchesOf(patterns, section, need) ==
  LET per == [p \in 1..Len(patterns) |-> MatchesWith(FindIter(patterns[p], 4, section, TRUE), need)]
  IN  per[1] \o per[2]

\* experiences.append(experience) for each match
ExperiencesOf(exp_section, matches) ==
  [j \in 1..Len(matches) |-> ExperienceEntry(exp_section, matches[j])]

WorkExperienceIn(exp_section) ==
  WithCount(ExperiencesOf(exp_section, MatchesOf(JobPatterns, exp_section, 4)), EntryTenths)

extract_work_experience(text) == WorkExperienceIn(FindSection(text, ExpKeywords))

\* r'(\d+\.\d+)\s*(?:CGPA|GPA)', r'(\d+)\s*%', r'Grade:\s*([A-B][+-]?)'
GradePatterns ==
  << <<Open(1), Plus(Digits), Ch("."), Plus(Digits), Close(1), Star(SpaceChars),
       Alt(<<Lit("CGPA"), Lit("GPA")>>)>>,
     <<Open(1), Plus(Digits), Close(1), Star(SpaceChars), Ch("%")>>,
     Lit("Grade:") \o <<Star(SpaceChars), Open(1), One({"A", "B"}), Opt({"+", "-"}), Close(1)>> >>

\* a grade looked for in the text of the entry alone
GradeOfEntry(text, context) ==
  LET ms == [p \in 1..Len(GradePatterns) |-> ReSearch(GradePatterns[p], 1, context, TRUE)]
      at == FirstTrue([p \in 1..Len(ms) |-> ms[p].end # -1])
  IN  IF at = 0 THEN "" ELSE Group(context, ms[at], 1)

\* TextAnalyzer._extract_grade: the context is not used
extract_grade(text, context) ==
  LET ms == [p \in 1..Len(GradePatterns) |-> ReSearch(GradePatterns[p], 1, text, TRUE)]
      at == FirstTrue([p \in 1..Len(ms) |-> ms[p].end # -1])
  IN  IF at = 0 THEN "" ELSE Group(text, ms[at], 1)

\* r'(.+?)\s*[-–]\s*(.+?)\s*\((\d{4})\s*[-–]\s*(\d{4}|Present)\)'
\* r'(.+?)\s+from\s+(.+?)\s*\(?\s*(\d{4})\s*[-–]\s*(\d{4})\s*\)?'
EduPatterns ==
  << <<Open(1), DotPlusLazy, Close(1)>> \o DashGap \o
       <<Open(2), DotPlusLazy, Close(2), Star(SpaceChars), Ch("("), Open(3), Times(Digits, 4),
         Close(3)>> \o DashGap \o
       <<Open(4), Alt(<< <<Times(Digits, 4)>>, Lit("Present") >>), Close(4), Ch(")")>>,
     <<Open(1), DotPlusLazy, Close(1), Plus(SpaceChars)>> \o Lit("from") \o
       <<Plus(SpaceChars), Open(2), DotPlusLazy, Close(2), Star(SpaceChars), Opt({"("}),
         Star(SpaceChars), Open(3), Times(Digits, 4), Close(3)>> \o DashGap \o
       <<Open(4), Times(Digits, 4), Close(4), Star(SpaceChars), Opt({")"})>> >>

EduKeywords == <<"education">>

\* the group that becomes degree, and the one that becomes institution
DegreeGroup(has_from) == IF has_from THEN 2 ELSE 1
InstitutionGroup(has_from) == IF has_from THEN 1 ELSE 2

\* the dict built from one match of an education pattern
EducationEntry(edu_section, m) ==
  LET g0 == Group(edu_section, m, 0)
      has_from == Contains(" from ", g0)
  IN  [degree |-> Strip(Group(edu_section, m, DegreeGroup(has_from))),
       institution |-> Strip(Group(edu_section, m, InstitutionGroup(has_from))),
       start_year |-> Group(edu_section, m, 3),
       end_year |-> Group(edu_section, m, 4),
       field_of_study |-> "",
       grade |-> extract_grade(edu_section, g0)]

\* education.append(edu) for each match
EducationOf(edu_section, matches) ==
  [j \in 1..Len(matches) |-> EducationEntry(edu_section, matches[j])]

EducationIn(edu_section) ==
  WithCount(EducationOf(edu_section, MatchesOf(EduPatterns, edu_section, 4)), EntryTenths)

extract_education(text) == EducationIn(FindSection(text, EduKeywords))

(***************************************************************************)
(* Settings and SkillExtractor                                             *)
(***************************************************************************)
\* settings.SKILL_TAXONOMY
SKILL_TAXONOMY ==
  << <<"programming_languages",
       <<"python", "java", "javascript", "c++", "c#", "go", "rust", "swift", "kotlin",
         "typescript", "php", "ruby", "sql", "r", "matlab">> >>,
     <<"frameworks",
       <<"react", "angular", "vue", "django", "flask", "fastapi", "spring", "node.js",
         "express", "laravel", "ruby on rails", "tensorflow", "pytorch", "keras",
         "scikit-learn", "pandas", "numpy">> >>,
     <<"tools",
       <<"docker", "kubernetes", "aws", "azure", "gcp", "git", "jenkins", "linux", "unix",
         "windows", "macos", "jira", "confluence">> >>,
     <<"databases",
       <<"mysql", "postgresql", "mongodb", "redis", "sqlite", "oracle", "cassandra",
         "elasticsearch">> >>,
     <<"soft_skills",
       <<"leadership", "communication", "teamwork", "problem solving", "critical thinking",
         "time management", "adaptability", "creativity", "collaboration", "presentation",
         "negotiation">> >> >>

RECURSIVE Flatten(_, _, _)
\* the sequences seqs[lo..hi] one after the other
Flatten(seqs, lo, hi) ==
  IF lo > hi THEN <<>>
  ELSE IF lo = hi THEN seqs[lo]
  ELSE Flatten(seqs, lo, (lo + hi) \div 2) \o Flatten(seqs, (lo + hi) \div 2 + 1, hi)

\* for category, skills in taxonomy.items(): for skill in skills
SkillsOf(taxonomy) == Flatten([c \in 1..Len(taxonomy) |-> taxonomy[c][2]], 1, Len(taxonomy))

\* the aliases _build_skill_aliases adds after a skill
CommonAliases(skill) ==
  CASE skill = "javascript" -> << <<"js", "javascript">>, <<"es6", "javascript">> >>
    [] skill = "python" -> << <<"py", "python">> >>
    [] skill = "node.js" -> << <<"node", "node.js">>, <<"nodejs", "node.js">> >>
    [] skill = "c++" -> << <<"cpp", "c++">> >>
    [] skill = "c#" -> << <<"csharp", "c#">> >>
    [] skill = "react" -> << <<"reactjs", "react">>, <<"react.js", "react">> >>
    [] skill = "aws" -> << <<"amazon web services", "aws">> >>
    [] skill = "express" -> << <<"expressjs", "express">>, <<"express.js", "express">> >>
    [] OTHER -> <<>>

\* dict.update: the assignments of e, in order, applied to d
DictUpdate(d, e) ==
  LET last(key) == e[MaxOf({j \in 1..Len(e) : e[j][1] = key})][2]
      fresh == {j \in 1..Len(e) : /\ ~DictHas(d, e[j][1])
                                  /\ \A q \in 1..(j - 1) : e[q][1] # e[j][1]}
  IN  [j \in 1..Len(d) |-> IF DictHas(e, d[j][1]) THEN <<d[j][1], last(d[j][1])>> ELSE d[j]]
      \o [j \in 1..Cardinality(fresh) |-> <<e[Nth(fresh, j)][1], last(e[Nth(fresh, j)][1])>>]

RECURSIVE AliasRange(_, _, _)
\* the assignments _build_skill_aliases makes for skills[lo..hi]
AliasRange(skills, lo, hi) ==
  IF lo = hi THEN << <<Lower(skills[lo]), skills[lo]>> >> \o CommonAliases(skills[lo])
  ELSE AliasRange(skills, lo, (lo + hi) \div 2) \o AliasRange(skills, (lo + hi) \div 2 + 1, hi)

\* SkillExtractor._build_skill_aliases
build_skill_aliases(taxonomy) ==
  LET skills == SkillsOf(taxonomy)
  IN  IF skills = <<>> THEN <<>> ELSE DictUpdate(<<>>, AliasRange(skills, 1, Len(skills)))

\* re.search(r'\b' + re.escape(word) + r'\b', s)
HasWord(word, s) ==
  \E i \in 1..(Len(s) - Len(word) + 1) :
    SubSeq(s, i, i + Len(word) - 1) = word /\ AtWb(s, i) /\ AtWb(s, i + Len(word))

\* the soft skills of the taxonomy, lower-cased
SoftList(taxonomy) ==
  IF DictHas(taxonomy, "soft_skills")
  THEN {Lower(DictGet(taxonomy, "soft_skills")[j]) : j \in 1..Len(DictGet(taxonomy, "soft_skills"))}
  ELSE {}

\* A Python set of strings is iterated in the order of its hash table, which the
\* process's string hash seed decides: the same in every call of one process, not
\* fixed by the program.  HashRank stands for it: one ranking of the skills per seed
\* (multiplication by seed + 1 modulo HashModulus permutes the ranks).
HashModulus == 2 * Len(SkillsOf(SKILL_TAXONOMY)) - 1
HashRank(str, seed) ==
  LET all == SkillsOf(SKILL_TAXONOMY)
      at == IF \E j \in 1..Len(all) : all[j] = str
            THEN CHOOSE j \in 1..Len(all) : all[j] = str ELSE Len(all) + Len(str)
  IN  (at * (seed + 1)) % HashModulus

\* list(S) for a set S of strings, under a hash seed
SetOrder(S, seed) ==
  [j \in 1..Cardinality(S) |->
     CHOOSE x \in S : Cardinality({y \in S : HashRank(y, seed) < HashRank(x, seed)}) = j - 1]

\* a second loop that adds the alias it found instead of its skill
FoundSkillsRaw(text, taxonomy, aliases) ==
  LET text_lower == Lower(text)
      skills == SkillsOf(taxonomy)
  IN  {skills[j] : j \in {q \in 1..Len(skills) : HasWord(Lower(skills[q]), text_lower)}}
      \cup {aliases[j][1] :
              j \in {q \in 1..Len(aliases) : /\ aliases[q][1] # aliases[q][2]
                                             /\ HasWord(aliases[q][1], text_lower)}}

\* the skills found by the two loops of extract_skills
FoundSkills(text, taxonomy, aliases) ==
  LET text_lower == Lower(text)
      skills == SkillsOf(taxonomy)
  IN  {IF DictHas(aliases, Lower(skills[j])) THEN DictGet(aliases, Lower(skills[j])) ELSE skills[j] :
         j \in {q \in 1..Len(skills) : HasWord(Lower(skills[q]), text_lower)}}
      \cup {aliases[j][2] :
              j \in {q \in 1..Len(aliases) : /\ aliases[q][1] # aliases[q][2]
                                             /\ HasWord(aliases[q][1], text_lower)}}

\* "len(found_skills) / max(total_skills_in_taxonomy, 1) * 2", capped at 1.0
SkillsConfidence(found, total) ==
  MinInt((found * 2 * ConfScale) \div (IF total > 1 THEN total ELSE 1), ConfScale)

\* a categorization that lists every skill as technical, the soft ones too
CategorizedTwice(listed, soft_skills_list) ==
  [technical |-> listed,
   soft |-> Pick(listed, {j \in 1..Len(listed) : Lower(listed[j]) \in soft_skills_list})]

\* "if skill.lower() in soft_skills_list" ... else technical
Categorized(listed, soft_skills_list) ==
  LET soft == {j \in 1..Len(listed) : Lower(listed[j]) \in soft_skills_list}
  IN  [technical |-> [j \in 1..(Len(listed) - Cardinality(soft)) |->
                        listed[Nth((1..Len(listed)) \ soft, j)]],
       soft |-> [j \in 1..Cardinality(soft) |-> listed[Nth(soft, j)]]]

\* what extract_skills returns for the set found_skills
SkillsResult(found_skills, taxonomy, seed) ==
  [data |-> Categorized(SetOrder(found_skills, seed), SoftList(taxonomy)),
   confidence |-> SkillsConfidence(Cardinality(found_skills), Len(SkillsOf(taxonomy)))]

\* SkillExtractor.extract_skills, the process's hash seed being seed
extract_skills_with(text, taxonomy, aliases, seed) ==
  SkillsResult(FoundSkills(text, taxonomy, aliases), taxonomy, seed)

\* _extract_tech_from_description
extract_tech_from_description(description, taxonomy, aliases, seed) ==
  IF description = "" THEN <<>>
  ELSE extract_skills_with(description, taxonomy, aliases, seed).data.technical

\* r'https?://[^\s]+'
ProjectUrlPattern == Lit("http") \o <<Opt({"s"})>> \o Lit("://") \o <<Cls(SpaceChars, TRUE, 1, -1, FALSE)>>

\* _extract_project_url
extract_project_url(text) ==
  LET urls == FindAll(ProjectUrlPattern, 0, text, FALSE)
  IN  IF urls = <<>> THEN "" ELSE urls[1]

\* project_patterns: "Project Name - Description (Date - Date)" and "Project Name, Tech Stack"
ProjectPatterns ==
  << <<Bol, Open(1), DotPlusLazy, Close(1), Star(SpaceChars), One(DashChars), Star(SpaceChars),
       Open(2), DotPlusLazy, Close(2), Star(SpaceChars), Ch("("),
       Open(3), Plus(WordChars), Star(SpaceChars), Times(Digits, 4), Close(3),
       Star(SpaceChars), One(DashChars), Star(SpaceChars),
       Open(4), Plus(WordChars), Star(SpaceChars), Times(Digits, 4), Close(4), Ch(")")>>,
     <<Bol, Open(1), DotPlusLazy, Close(1), Star(SpaceChars), One({",", ":", "-"}),
       Star(SpaceChars), Open(2), DotPlusLazy, Close(2), Eol>> >>
ProjectGroups == <<4, 2>>

ProjectStopwords == <<"the", "and", "with", "for", "using">>
\* "len(project_name) > 2 and len(project_name) < 50"
NameMinLen == 2
NameMaxLen == 50
\* "len(line) > 10", "len(current_project['description']) < 200"
LineMinLen == 10
DescMaxLen == 200

\* the validation of a project name
ValidProjectName(project_name) ==
  /\ Len(project_name) > NameMinLen
  /\ Len(project_name) < NameMaxLen
  /\ ~EndsWith(project_name, ".")
  /\ ~AnyIn(ProjectStopwords, Lower(project_name))

\* project_name, description and the validation of a match of a project pattern
ProjectName(line, m) == Strip(Group(line, m, 1))
ProjectDesc(line, m) == IF m.last >= 2 THEN Strip(Group(line, m, 2)) ELSE ""
StartsProject(line, m) == m.end # -1 /\ ValidProjectName(ProjectName(line, m))

\* the pattern whose match starts a project on this line (0 for none)
StartedBy(line, ms) ==
  IF StartsProject(line, ms[1]) THEN 1 ELSE IF StartsProject(line, ms[2]) THEN 2 ELSE 0

\* current_project = {...}
NewProject(project_name, description, line, taxonomy, aliases, seed) ==
  [name |-> project_name, description |-> description,
   tech_stack |-> extract_tech_from_description(description, taxonomy, aliases, seed),
   project_url |-> extract_project_url(line)]

\* One line of the loop of extract_projects.  The project dicts live in objs; the
\* list projects holds references to them (indices), so a dict appended twice, or
\* changed after it was appended, shows in every entry that refers to it; cur is
\* current_project (0 for None).  ms are the matches of the two patterns on the
\* line, by the pattern that starts a project.
ProjectStep(st, line, ms, by, taxonomy, aliases, seed) ==
  LET tried == IF by = 1 THEN {1} ELSE {1, 2}
      appends == IF st.cur # 0 /\ st.objs[st.cur].name # ""
                 THEN Cardinality({p \in tried : ms[p].end # -1}) ELSE 0
      projects == st.projects \o [j \in 1..appends |-> st.cur]
  IN  IF by # 0
      THEN [objs |-> Append(st.objs, NewProject(ProjectName(line, ms[by]), ProjectDesc(line, ms[by]),
                                                line, taxonomy, aliases, seed)),
            projects |-> projects, cur |-> Len(st.objs) + 1]
      ELSE IF st.cur # 0 /\ Len(line) > LineMinLen /\ Len(st.objs[st.cur].description) < DescMaxLen
      THEN [st EXCEPT !.projects = projects, !.objs[st.cur].description = @ \o " " \o line]
      ELSE [st EXCEPT !.projects = projects]

ProjectMatched(st, line, ms, taxonomy, aliases, seed) ==
  ProjectStep(st, line, ms, StartedBy(line, ms), taxonomy, aliases, seed)

\* for pattern in project_patterns: match = re.match(pattern, line, re.IGNORECASE)
ProjectLine(st, line, taxonomy, aliases, seed) ==
  ProjectMatched(st, line,
                 [p \in 1..2 |-> ReMatch(ProjectPatterns[p], ProjectGroups[p], line, TRUE)],
                 taxonomy, aliases, seed)

RECURSIVE ProjectLoop(_, _, _, _, _, _)
\* the loop of extract_projects from line j on, and the append after it
ProjectLoop(lines, j, st, taxonomy, aliases, seed) ==
  IF j > Len(lines)
  THEN IF st.cur # 0 /\ st.objs[st.cur].name # ""
       THEN [st EXCEPT !.projects = Append(@, st.cur)] ELSE st
  ELSE ProjectLoop(lines, j + 1, ProjectLine(st, lines[j], taxonomy, aliases, seed),
                   taxonomy, aliases, seed)

ProjectKeywords == <<"project">>

\* "len(quality_projects) * 0.4"
ProjectTenths == 4

\* "if len(p['name']) > 2 and not p['name'].isdigit()"
QualityProjects(projects) ==
  LET quality == {j \in 1..Len(projects) :
                    /\ Len(projects[j].name) > NameMinLen
                    /\ ~IsDigit(projects[j].name)}
  IN  WithCount(Pick(projects, quality), ProjectTenths)

\* the dicts the list projects refers to
ProjectsOf(st) == [j \in 1..Len(st.projects) |-> st.objs[st.projects[j]]]

ProjectsIn(projects_section, taxonomy, aliases, seed) ==
  QualityProjects(ProjectsOf(ProjectLoop(StrippedLines(projects_section), 1,
                                         [objs |-> <<>>, projects |-> <<>>, cur |-> 0],
                                         taxonomy, aliases, seed)))

\* SkillExtractor.extract_projects, the process's hash seed being seed
extract_projects_with(text, taxonomy, aliases, seed) ==
  ProjectsIn(FindSection(text, ProjectKeywords), taxonomy, aliases, seed)

(***************************************************************************)
(* FileProcessor: an uploaded file is [filename, content]; its content is  *)
(* [size, readable, pages]: the size in MB, whether pdfplumber / docx can  *)
(* open it, and the text of its pages (paragraphs for a .docx)             *)
(***************************************************************************)
\* "20 * 1024 * 1024", in MB
MaxUploadMB == 20
SupportedExtensions == {".pdf", ".docx"}

\* os.path.splitext(filename)[1].lower() for a file name without directories
FileExtension(filename) ==
  LET dots == {i \in 1..Len(filename) : At(filename, i) = "."}
      named == {i \in 1..Len(filename) : At(filename, i) # "."}
  IN  IF dots = {} \/ named = {} \/ MaxOf(dots) < MinOf(named) THEN ""
      ELSE Lower(SubSeq(filename, MaxOf(dots), Len(filename)))

\* hashlib.md5(file_content).hexdigest(): one digest per content, taken free of collisions
file_hash(content) == content

\* extract_text_from_pdf: pages without text are skipped
extract_text_from_pdf(pages) ==
  Strip(Join("", [j \in 1..Len(pages) |-> IF pages[j] = "" THEN "" ELSE pages[j] \o "\n"]))

\* extract_text_from_docx
extract_text_from_docx(paragraphs) ==
  Strip(Join("", [j \in 1..Len(paragraphs) |-> paragraphs[j] \o "\n"]))

\* a handler that answers every exception with a 500
ServerError(status, detail) == [status |-> 500, detail |-> detail]

\* raise HTTPException(status_code=status, detail=detail)
HttpError(status, detail) == [status |-> status, detail |-> detail]

\* FileProcessor.extract_text: [status |-> 200, text, file_hash] or an HTTPException
extract_text(file) ==
  LET file_extension == FileExtension(file.filename)
  IN  IF file.content.size > MaxUploadMB THEN HttpError(400, "File too large")
      ELSE IF file_extension \notin SupportedExtensions
      THEN HttpError(400, "Unsupported file format")
      ELSE IF ~file.content.readable
      THEN HttpError(400, IF file_extension = ".pdf" THEN "PDF processing failed"
                          ELSE "DOCX processing failed")
      ELSE [status |-> 200,
            text |-> IF file_extension = ".pdf" THEN extract_text_from_pdf(file.content.pages)
                     ELSE extract_text_from_docx(file.content.pages),
            file_hash |-> file_hash(file.content)]

(***************************************************************************)
(* main.py: the confidence aggregator and the responses                    *)
(***************************************************************************)
\* the weights of calculate_overall_confidence, in hundredths
WeightScale == 100
Weights ==
  << <<"personal_info", 15>>, <<"work_experience", 25>>, <<"education", 20>>, <<"skills", 20>>,
     <<"summary", 5>>, <<"projects", 10>>, <<"certifications", 3>>, <<"languages", 1>>,
     <<"interests", 1>> >>

\* weights that leave out the sections parse_resume does not compute
ComputedWeightOf(section) ==
  IF section \in {"certifications", "languages", "interests"} \/ ~DictHas(Weights, section)
  THEN 0 ELSE DictGet(Weights, section)

\* weights.get(section, 0)
WeightOf(section) == IF DictHas(Weights, section) THEN DictGet(Weights, section) ELSE 0

\* the sections of a SectionConfidence
SectionNames ==
  <<"personal_info", "summary", "work_experience", "education", "skills", "projects",
    "certifications", "languages", "interests">>

RECURSIVE SumOver(_, _)
\* sum(f[j] for j in 1..n)
SumOver(f, n) == IF n = 0 THEN 0 ELSE f[n] + SumOver(f, n - 1)

\* overall confidences are in units of 1/OverallScale
OverallScale == ConfScale * WeightScale

\* calculate_overall_confidence
calculate_overall_confidence(section_confidences) ==
  LET total_confidence ==
        SumOver([j \in 1..Len(SectionNames) |->
                   section_confidences[SectionNames[j]] * WeightOf(SectionNames[j])],
                Len(SectionNames))
      total_weight ==
        SumOver([j \in 1..Len(SectionNames) |-> WeightOf(SectionNames[j])], Len(SectionNames))
  IN  IF total_weight > 0 THEN (total_confidence * WeightScale) \div total_weight ELSE 0

\* SectionConfidence(): every section 0.0
EmptySectionConfidence == [n \in {SectionNames[j] : j \in 1..Len(SectionNames)} |-> 0]

\* ResumeData of create_empty_response
EmptyResumeData ==
  [personal_info |-> EmptyPersonalInfo, summary |-> "", work_experience |-> <<>>,
   education |-> <<>>, skills |-> [technical |-> <<>>, soft |-> <<>>], projects |-> <<>>,
   certifications |-> <<>>, languages |-> <<>>, interests |-> <<>>]

\* create_empty_response(confidence, reason), confidence in tenths
create_empty_response(tenths, reason) ==
  [status |-> 200, data |-> EmptyResumeData,
   metadata |-> [processing_time |-> 0, overall_confidence |-> (tenths * OverallScale) \div 10,
                 section_confidence |-> EmptySectionConfidence,
                 extraction_details |-> [error_reason |-> reason, cache_hit |-> FALSE]]]

\* "file.filename.split('.')[-1] if '.' in file.filename else 'unknown'"
FileType(filename) ==
  IF Contains(".", filename) THEN Split(filename, ".")[Len(Split(filename, "."))] ELSE "unknown"

\* lines 93-126 of parse_resume: the aggregation and the response, given what the
\* six extractors returned
BuildResponse(personal, summary, work, education, skills, projects, text, filename, processing_time) ==
  LET section_confidences ==
        [personal_info |-> personal.confidence, summary |-> summary.confidence,
         work_experience |-> work.confidence, education |-> education.confidence,
         skills |-> skills.confidence, projects |-> projects.confidence,
         certifications |-> 0, languages |-> 0, interests |-> 0]
  IN  [status |-> 200,
       data |-> [personal_info |-> personal.data, summary |-> summary.data,
                 work_experience |-> work.data, education |-> education.data,
                 skills |-> skills.data, projects |-> projects.data,
                 certifications |-> <<>>, languages |-> <<>>, interests |-> <<>>],
       metadata |-> [processing_time |-> processing_time,
                     overall_confidence |-> calculate_overall_confidence(section_confidences),
                     section_confidence |-> section_confidences,
                     extraction_details |-> [file_type |-> FileType(filename),
                                             file_size |-> Len(text), text_length |-> Len(text),
                                             cache_hit |-> FALSE]]]

\* lines 65-126 of parse_resume: the six extractors, the aggregation and the response
process_text(text, filename, taxonomy, aliases, seed, processing_time) ==
  BuildResponse(extract_personal_info(text), extract_summary(text),
                extract_work_experience(text), extract_education(text),
                extract_skills_with(text, taxonomy, aliases, seed),
                extract_projects_with(text, taxonomy, aliases, seed),
                text, filename, processing_time)

(***************************************************************************)
(* Inputs: resume lines of the shapes the extractors look for, the texts   *)
(* built from them, and the uploaded files                                 *)
(***************************************************************************)
\* "T at C (S - E)"
AtLine(T, C, S, E) == T \o " at " \o C \o " (" \o S \o " - " \o E \o ")"
\* "A - B (S - E)"
DashLine(A, B, S, E) == A \o " - " \o B \o " (" \o S \o " - " \o E \o ")"
\* "D from I (S - E)"
FromLine(D, I, S, E) == D \o " from " \o I \o " (" \o S \o " - " \o E \o ")"

PhoneLine == "+1-234-567-8901"
SkillsLine == "Python, JavaScript and leadership"

LinePool ==
  <<"EXPERIENCE", AtLine("Software Engineer", "Acme Corp", "Jan 2020", "Present"),
    DashLine("Acme Corp", "Intern", "Mar 2019", "Jun 2019"),
    "EDUCATION", FromLine("B.Tech", "MIT", "2016", "2020"), DashLine("MIT", "B.Tech", "2016", "2020"),
    "John Doe", "john.doe@email.com", PhoneLine, "New York, USA", SkillsLine,
    "Shop App: built with react and django", "  ", "Skills">>

MaxLines == 2

RECURSIVE LineTexts(_)
\* the texts of n lines of the pool
LineTexts(n) ==
  IF n = 0 THEN {""}
  ELSE IF n = 1 THEN {LinePool[j] : j \in 1..Len(LinePool)}
  ELSE {t \o "\n" \o LinePool[j] : t \in LineTexts(n - 1), j \in 1..Len(LinePool)}

\* the examples of the documentation and of the tests, and longer resumes
Example1 == "John Doe\njohn.doe@email.com\n+1-234-567-8901\nNew York, USA"
ExampleSkills == "Experienced in Python, JavaScript, and React. Strong leadership skills."
ExampleAliases == "Proficient in JS, ReactJS, and node."
ExampleProjects ==
  "PROJECTS\nShop App - web store\nThe big one - uses flask\nBlog: written in django\nsee https://blog.io for the running site"
ExampleSections == "SKILLS\nPython\nEXPERIENCE\nBuilt things\nSKILLS\nJava"
ExampleRepeated == "SKILLS\nPython\nEXPERIENCE\nSKILLS"
ExampleBullets ==
  "EXPERIENCE\n" \o AtLine("Software Engineer", "Acme Corp", "Jan 2020", "Present")
  \o "\nBuilt the billing service in Python\n- migrated the database to postgresql\nOn call rotation"
  \o "\nRan the migration to Kubernetes\nWrote the public API documents\nMentored four junior engineers\n"
  \o DashLine("Acme Corp", "Intern", "Mar 2019", "Jun 2019")
  \o "\nFixed bugs in the data pipeline\nTesting\nNever part of the description at all"
ExampleStack == "PROJECTS\nShop App - web store\nbuilt using react plus django backend"
\* education sections with grades: a percentage before a GPA, a letter before a
\* percentage, a letter alone, and a percentage with a decimal point
ExampleGrades ==
  "EDUCATION\n" \o DashLine("MIT", "B.Tech", "2016", "2020") \o "\nScored 85% overall\n"
  \o FromLine("B.Sc", "Stanford", "2012", "2015") \o "\nGrade: A+ and 3.8 GPA"
GradeExamples ==
  {ExampleGrades,
   "EDUCATION\n" \o DashLine("MIT", "B.Tech", "2016", "2020") \o "\nGrade: B with 72 %",
   "EDUCATION\n" \o DashLine("MIT", "B.Tech", "2016", "2020") \o "\ngrade: a-",
   "EDUCATION\n" \o DashLine("MIT", "B.Tech", "2016", "2020") \o "\nGrade: C and 85.5%"}
ExampleLateName == "RESUME\n\nCurriculum vitae\n\n2024\nJohn Doe"
ExampleResume ==
  "John Doe\nSUMMARY\nSeasoned engineer who has built and run many distributed systems\nEXPERIENCE\n"
  \o AtLine("Software Engineer", "Acme Corp", "Jan 2020", "Present")
  \o "\nEDUCATION\n" \o FromLine("B.Tech", "MIT", "2016", "2020") \o "\nGPA: 3.8"
Examples ==
  {Example1, ExampleSkills, ExampleAliases, ExampleProjects, ExampleSections, ExampleRepeated,
   ExampleLateName, ExampleBullets, ExampleStack,
   ExampleResume, "\n", " \n\t "} \cup GradeExamples

\* the casings of an alias that the inputs try
Capitalize(s) == IF s = "" THEN "" ELSE UpperChar(At(s, 1)) \o SubSeq(s, 2, Len(s))
Upper(s) == Join("", [i \in 1..Len(s) |-> UpperChar(At(s, i))])
Casings(s) == {s, Upper(s), Capitalize(s)}

\* the aliases of the table: the keys that differ from their skill
AliasKeys(aliases) == {aliases[j][1] : j \in {q \in 1..Len(aliases) : aliases[q][1] # aliases[q][2]}}

\* a text that mentions word as a whole token
Mention(word) == "Proficient in " \o word \o ", daily"
AliasTexts == {Mention(w) : w \in UNION {Casings(a) : a \in AliasKeys(build_skill_aliases(SKILL_TAXONOMY))}}

Texts == UNION {LineTexts(n) : n \in 0..MaxLines} \cup Examples \cup AliasTexts

\* the texts of the concurrent calls
CallTexts == {ExampleAliases, ExampleProjects}

Content(size, readable, pages) == [size |-> size, readable |-> readable, pages |-> pages]
Files ==
  {[filename |-> "resume.pdf", content |-> Content(1, TRUE, <<"John Doe", "", SkillsLine>>)],
   [filename |-> "copy.PDF", content |-> Content(1, TRUE, <<"John Doe", "", SkillsLine>>)],
   [filename |-> "cv.docx",
    content |-> Content(1, TRUE, <<"", AtLine("Software Engineer", "Acme Corp", "Jan 2020", "Present")>>)],
   [filename |-> "scan.pdf", content |-> Content(2, TRUE, <<"", " ">>)],
   [filename |-> "empty.pdf", content |-> Content(0, FALSE, <<>>)],
   [filename |-> "notes.txt", content |-> Content(1, TRUE, <<"John Doe">>)],
   [filename |-> "big.pdf", content |-> Content(MaxUploadMB + 1, TRUE, <<"John Doe">>)]}

\* time.time() - start_time, in ticks
MaxElapsed == 2
Elapsed == 1..MaxElapsed
MaxRequests == 2
MaxHashSeed == 1
HashSeeds == 0..MaxHashSeed
NumCallers == 2
Callers == 1..NumCallers

(***************************************************************************)
(* The process: the SkillExtractor's taxonomy and alias table, the string  *)
(* hash seed, the result cache, the responses served so far, and callers   *)
(* that run the extractors on a text one operation at a time               *)
(***************************************************************************)
VARIABLES skill_taxonomy, skill_aliases, hash_seed, cache, log, pc, job, out

shared == <<skill_taxonomy, skill_aliases, hash_seed>>
service == <<cache, log>>
calls == <<pc, job, out>>
vars == <<skill_taxonomy, skill_aliases, hash_seed, cache, log, pc, job, out>>

Operations ==
  <<"split_into_sections", "extract_personal_info", "extract_summary", "extract_work_experience",
    "extract_education", "extract_skills", "extract_projects">>

\* the position of a caller: the number of operations it has completed; a caller
\* that makes no call stands at Idle
Done == Len(Operations)
Idle == Done + 1
NoOut == [op \in {Operations[j] : j \in 1..Len(Operations)} |-> <<>>]

\* SkillExtractor.__init__ and the module-level cache_manager
InitProcess ==
  /\ skill_taxonomy = SKILL_TAXONOMY
  /\ skill_aliases = build_skill_aliases(SKILL_TAXONOMY)
  /\ hash_seed \in HashSeeds
  /\ cache = <<>>
  /\ log = <<>>

\* callers in `running` start on texts of pool; the others make no call
InitCalls(running, pool) ==
  /\ pc = [c \in Callers |-> IF c \in running THEN 0 ELSE Idle]
  /\ \E t \in [running -> pool] : job = [c \in Callers |-> IF c \in running THEN t[c] ELSE ""]
  /\ out = [c \in Callers |-> NoOut]

Init == InitProcess /\ InitCalls({}, {""})
InitExtract == InitProcess /\ InitCalls({1}, Texts)
InitConcurrent == InitProcess /\ InitCalls(Callers, CallTexts)

(***************************************************************************)
(* POST /parse-resume.  The handler is a coroutine without an await, so it *)
(* runs from its first line to its return without another request between. *)
(***************************************************************************)
\* cache_manager.get(key): None (here <<>>) when the key is absent
CacheGet(c, key) == IF key \in DOMAIN c THEN c[key] ELSE <<>>

\* cache_manager.set(key, value)
CacheSet(c, key, value) == [k \in DOMAIN c \cup {key} |-> IF k = key THEN value ELSE c[k]]

\* "cache_manager.set(file_hash, response); return response"
Cached(c, key, response) == [response |-> response, cache |-> CacheSet(c, key, response)]

\* parse_resume after processor.extract_text returned got
HandleText(got, file, c, taxonomy, aliases, seed, processing_time) ==
  IF got.status # 200 THEN [response |-> got, cache |-> c]
  ELSE IF CacheGet(c, got.file_hash) # <<>>
  THEN Cached(c, got.file_hash,
              [c[got.file_hash] EXCEPT !.metadata.extraction_details.cache_hit = TRUE])
  ELSE IF Strip(got.text) = ""
  THEN [response |-> create_empty_response(1, "No text extracted from file"), cache |-> c]
  ELSE Cached(c, got.file_hash,
              process_text(got.text, file.filename, taxonomy, aliases, seed, processing_time))

\* the response of parse_resume to file and the cache it leaves, the request taking
\* processing_time ticks
Handle(file, c, taxonomy, aliases, seed, processing_time) ==
  HandleText(extract_text(file), file, c, taxonomy, aliases, seed, processing_time)

\* the handler returns r.response and leaves the cache r.cache
Reply(file, r) ==
  /\ cache' = r.cache
  /\ log' = Append(log, [file |-> file, response |-> r.response])

ParseResume(file, processing_time) ==
  /\ Len(log) < MaxRequests
  /\ Reply(file, Handle(file, cache, skill_taxonomy, skill_aliases, hash_seed, processing_time))
  /\ UNCHANGED <<shared, calls>>

\* TTLCache: an entry older than CACHE_TTL is gone
CacheExpire(key) ==
  /\ key \in DOMAIN cache
  /\ cache' = [k \in DOMAIN cache \ {key} |-> cache[k]]
  /\ UNCHANGED <<shared, log, calls>>

(***************************************************************************)
(* Direct calls of the extractors, as the tests make them: each caller     *)
(* runs the operations on its text in the order of parse_resume            *)
(***************************************************************************)
\* an extractor that remembers the first word of its text as an alias of itself
AliasesLearned(text, aliases) ==
  IF Words(text) = <<>> THEN aliases ELSE DictSet(aliases, Lower(Words(text)[1]), Lower(Words(text)[1]))

\* the alias table after a call of extract_skills or extract_projects
AliasesAfter(text, aliases) == aliases

\* the result of operation op on text, in a process with this table and seed
Run(op, text, taxonomy, aliases, seed) ==
  CASE op = "split_into_sections" -> split_into_sections(text)
    [] op = "extract_personal_info" -> extract_personal_info(text)
    [] op = "extract_summary" -> extract_summary(text)
    [] op = "extract_work_experience" -> extract_work_experience(text)
    [] op = "extract_education" -> extract_education(text)
    [] op = "extract_skills" -> extract_skills_with(text, taxonomy, aliases, seed)
    [] op = "extract_projects" -> extract_projects_with(text, taxonomy, aliases, seed)

\* caller c runs operation number n, which returns result
Call(c, n, result) ==
  /\ pc[c] = n - 1
  /\ out' = [out EXCEPT ![c][Operations[n]] = result]
  /\ pc' = [pc EXCEPT ![c] = n]
  /\ skill_aliases' = IF n >= 6 THEN AliasesAfter(job[c], skill_aliases) ELSE skill_aliases
  /\ UNCHANGED <<skill_taxonomy, hash_seed, service, job>>

SplitIntoSections(c) == Call(c, 1, split_into_sections(job[c]))
ExtractPersonalInfo(c) == Call(c, 2, extract_personal_info(job[c]))
ExtractSummary(c) == Call(c, 3, extract_summary(job[c]))
ExtractWorkExperience(c) == Call(c, 4, extract_work_experience(job[c]))
ExtractEducation(c) == Call(c, 5, extract_education(job[c]))
ExtractSkills(c) == Call(c, 6, extract_skills_with(job[c], skill_taxonomy, skill_aliases, hash_seed))
ExtractProjects(c) == Call(c, 7, extract_projects_with(job[c], skill_taxonomy, skill_aliases, hash_seed))

Next ==
  \/ \E file \in Files, processing_time \in Elapsed : ParseResume(file, processing_time)
  \/ \E key \in DOMAIN cache : CacheExpire(key)

NextCalls ==
  \E c \in Callers :
    \/ SplitIntoSections(c)
    \/ ExtractPersonalInfo(c)
    \/ ExtractSummary(c)
    \/ ExtractWorkExperience(c)
    \/ ExtractEducation(c)
    \/ ExtractSkills(c)
    \/ ExtractProjects(c)

\* the service answering requests
Spec == Init /\ [][Next]_vars
\* one caller running the extractors on a text
SpecExtract == InitExtract /\ [][NextCalls]_vars
\* callers running the extractors concurrently
SpecConcurrent == InitConcurrent /\ [][NextCalls]_vars
(***************************************************************************)
(* Faults: an exception raised inside an extractor.  Each extractor but    *)
(* extract_skills runs its body in a try block; what the caller gets is    *)
(* what the lines after the except clause build from the locals as they    *)
(* stood when the exception was raised.                                    *)
(***************************************************************************)
\* the number of completed stages (searches, matches, lines) before the exception
MaxFaultAt == 2
FaultPoints == 0..MaxFaultAt
FaultTexts == {Example1, ExampleResume, ExampleProjects}

\* seq[:n]
Prefix(seq, n) == SubSeq(seq, 1, MinInt(n, Len(seq)))

\* what a search contributes: nothing when the exception came before it
Reached(at, stage, found) == IF at >= stage THEN found ELSE <<>>

\* extract_personal_info with an exception after `at` of its stages: email, phone,
\* links, name, location
PersonalInfoFaulted(text, at) ==
  PersonalInfoFrom(Reached(at, 1, FindAll(EmailPattern, 0, text, FALSE)),
                   Reached(at, 2, FindAll(PhonePattern, 1, text, FALSE)),
                   Reached(at, 3, FindAll(UrlPattern, 0, text, FALSE)),
                   Reached(at, 3, FindAll(LinkedinPattern, 0, text, FALSE)),
                   Reached(at, 3, FindAll(GithubPattern, 0, text, FALSE)),
                   Reached(at, 4, Split(text, "\n")),
                   Reached(at, 5, [j \in 1..Len(LocationPatterns) |->
                                     FindAll(LocationPatterns[j], 1, text, FALSE)]))

\* extract_summary: "except: return '', 0.0"
SummaryFaulted == [data |-> "", confidence |-> 0]

\* extract_work_experience and extract_education with an exception after `at`
\* appended entries: "confidence = min(len(entries) * 0.3, 1.0)" follows the except
EntriesFaulted(entries, at) == WithCount(Prefix(entries, at), EntryTenths)

\* extract_skills has no try block: the exception reaches the caller
Raised == [exception |-> "Exception"]

RECURSIVE ProjectsBefore(_, _, _, _, _, _)
\* the loop of extract_projects over lines, without the append that follows it
ProjectsBefore(lines, j, st, taxonomy, aliases, seed) ==
  IF j > Len(lines) THEN st
  ELSE ProjectsBefore(lines, j + 1, ProjectLine(st, lines[j], taxonomy, aliases, seed),
                      taxonomy, aliases, seed)

\* extract_projects with an exception after `at` lines of the section
ProjectsFaulted(text, at, taxonomy, aliases, seed) ==
  QualityProjects(ProjectsOf(
    ProjectsBefore(Prefix(StrippedLines(FindSection(text, ProjectKeywords)), at), 1,
                   [objs |-> <<>>, projects |-> <<>>, cur |-> 0], taxonomy, aliases, seed)))

\* what the caller of operation op gets when an exception is raised inside it
Faulted(op, text, at, taxonomy, aliases, seed) ==
  CASE op = "extract_personal_info" -> PersonalInfoFaulted(text, at)
    [] op = "extract_summary" -> SummaryFaulted
    [] op = "extract_work_experience" -> EntriesFaulted(extract_work_experience(text).data, at)
    [] op = "extract_education" -> EntriesFaulted(extract_education(text).data, at)
    [] op = "extract_skills" -> Raised
    [] op = "extract_projects" -> ProjectsFaulted(text, at, taxonomy, aliases, seed)

\* the position of a caller that an exception has left
Aborted == Idle + 1

\* operation number n of caller c raises an exception inside, after `at` stages
FaultIn(c, n, at) ==
  /\ pc[c] = n - 1
  /\ out' = [out EXCEPT ![c][Operations[n]] =
               Faulted(Operations[n], job[c], at, skill_taxonomy, skill_aliases, hash_seed)]
  /\ pc' = [pc EXCEPT ![c] = IF Operations[n] = "extract_skills" THEN Aborted ELSE n]
  /\ UNCHANGED <<shared, service, job>>

InitFaults == InitProcess /\ InitCalls({1}, FaultTexts)

NextFaults ==
  \/ NextCalls
  \/ \E c \in Callers, n \in 2..Done, at \in FaultPoints : FaultIn(c, n, at)

\* one caller running the extractors, any of which may raise inside
SpecFaults == InitFaults /\ [][NextFaults]_vars

(***************************************************************************)
(* The aggregation alone: calculate_overall_confidence applied to the      *)
(* SectionConfidence that parse_resume builds from six confidences         *)
(***************************************************************************)
ConfLevels == {0, Tenths(3), Tenths(5), ConfScale}
Computed == {"personal_info", "summary", "work_experience", "education", "skills", "projects"}

\* SectionConfidence(...) of parse_resume: certifications, languages, interests 0.0
SectionConfidenceOf(six) ==
  [n \in {SectionNames[j] : j \in 1..Len(SectionNames)} |-> IF n \in Computed THEN six[n] ELSE 0]

\* what a caller holds after the aggregation
Aggregated(section_confidences) ==
  [section_confidence |-> section_confidences,
   overall_confidence |-> calculate_overall_confidence(section_confidences)]

\* the first caller aggregates the six confidences, once
Aggregate(six) ==
  /\ out[1] = NoOut
  /\ out' = [out EXCEPT ![1] = Aggregated(SectionConfidenceOf(six))]
  /\ UNCHANGED <<shared, service, pc, job>>

NextAggregate == \E six \in [Computed -> ConfLevels] : Aggregate(six)

SpecAggregate == Init /\ [][NextAggregate]_vars

(***************************************************************************)
(* Properties                                                              *)
(***************************************************************************)
\* caller c has run operation number n
Ran(c, n) == n <= pc[c] /\ pc[c] <= Done
Sections(c) == out[c]["split_into_sections"]
Personal(c) == out[c]["extract_personal_info"]
Summary(c) == out[c]["extract_summary"]
Work(c) == out[c]["extract_work_experience"]
Education(c) == out[c]["extract_education"]
Skills(c) == out[c]["extract_skills"]
Projects(c) == out[c]["extract_projects"]

Elems(seq) == {seq[j] : j \in 1..Len(seq)}
LinesOf(text) == Elems(Split(text, "\n"))

\* the job lines and education lines of the inputs
JobLines == {<<"Software Engineer", "Acme Corp", "Jan 2020", "Present">>}
DegreeLines == {<<"B.Tech", "MIT", "2016", "2020">>}

\* C1: a line "T at C (dates)" of the section that extract_work_experience searches
\* gives an entry with job_title T, company C and the employment type inferred from T;
\* "Software Engineer at Acme Corp (Jan 2020 - Present)" under EXPERIENCE gives exactly
\* one entry, with start_date 01/2020, end_date Present and type full-time.
C1_TitleBeforeAt ==
  \A c \in Callers : Ran(c, 4) =>
    /\ \A l \in JobLines :
         AtLine(l[1], l[2], l[3], l[4]) \in LinesOf(FindSection(job[c], ExpKeywords)) =>
           \E e \in Elems(Work(c).data) :
             e.job_title = l[1] /\ e.company = l[2] /\ e.type = detect_employment_type(l[1])
    /\ job[c] = "EXPERIENCE\n" \o AtLine("Software Engineer", "Acme Corp", "Jan 2020", "Present") =>
         /\ Len(Work(c).data) = 1
         /\ Work(c).data[1].job_title = "Software Engineer"
         /\ Work(c).data[1].company = "Acme Corp"
         /\ Work(c).data[1].start_date = "01/2020"
         /\ Work(c).data[1].end_date = "Present"
         /\ Work(c).data[1].type = "full-time"

\* C2: a line "D from I (years)" of the section that extract_education searches gives
\* an entry with degree D and institution I; "B.Tech from MIT (2016 - 2020)" under
\* EDUCATION gives exactly one entry, with start_year 2016 and end_year 2020.
C2_DegreeBeforeFrom ==
  \A c \in Callers : Ran(c, 5) =>
    /\ \A l \in DegreeLines :
         FromLine(l[1], l[2], l[3], l[4]) \in LinesOf(FindSection(job[c], EduKeywords)) =>
           \E e \in Elems(Education(c).data) : e.degree = l[1] /\ e.institution = l[2]
    /\ job[c] = "EDUCATION\n" \o FromLine("B.Tech", "MIT", "2016", "2020") =>
         /\ Len(Education(c).data) = 1
         /\ Education(c).data[1].degree = "B.Tech"
         /\ Education(c).data[1].institution = "MIT"
         /\ Education(c).data[1].start_year = "2016"
         /\ Education(c).data[1].end_year = "2020"

\* C3: on an empty or whitespace-only text every extractor returns its zero value
\* with confidence exactly 0.0, and the confidences aggregate to exactly 0.0.
C3_BlankTextZero ==
  \A c \in Callers : Strip(job[c]) = "" =>
    /\ Ran(c, 2) => Personal(c).data = EmptyPersonalInfo /\ Personal(c).confidence = 0
    /\ Ran(c, 3) => Summary(c).data = "" /\ Summary(c).confidence = 0
    /\ Ran(c, 4) => Work(c).data = <<>> /\ Work(c).confidence = 0
    /\ Ran(c, 5) => Education(c).data = <<>> /\ Education(c).confidence = 0
    /\ Ran(c, 6) => Skills(c).data = [technical |-> <<>>, soft |-> <<>>] /\ Skills(c).confidence = 0
    /\ Ran(c, 7) =>
         /\ Projects(c).data = <<>> /\ Projects(c).confidence = 0
         /\ calculate_overall_confidence(
              [personal_info |-> Personal(c).confidence, summary |-> Summary(c).confidence,
               work_experience |-> Work(c).confidence, education |-> Education(c).confidence,
               skills |-> Skills(c).confidence, projects |-> Projects(c).confidence,
               certifications |-> 0, languages |-> 0, interests |-> 0]) = 0

\* the phone-shaped substrings of text, whole
PhoneCandidates(text) == FindAll(PhonePattern, 0, text, FALSE)

\* C4: when the text has a phone-shaped substring with at least 10 digits after
\* cleaning, the phone field is the first such candidate and 0.2 is among the factors;
\* the phone field is non-empty exactly when the 0.2 factor was added.
C4_PhonePopulated ==
  \A c \in Callers : Ran(c, 2) =>
    LET cands == PhoneCandidates(job[c])
        at == AcceptedPhone(cands)
        others == (IF Personal(c).data.email # "" THEN Tenths(3) ELSE 0)
                  + (IF Personal(c).data.full_name # "" THEN Tenths(3) ELSE 0)
                  + (IF Personal(c).data.location # "" THEN Tenths(2) ELSE 0)
    IN  /\ at # 0 => Personal(c).data.phone = cands[at]
        /\ Personal(c).data.phone # "" <=> Personal(c).confidence = others + Tenths(2)

\* C5: every extractor's confidence lies in [0, 1], and the identity confidence is
\* the sum of 0.3 for an email, 0.2 for a phone, 0.3 for a name and 0.2 for a
\* location, each counted once and only when the field was filled.
C5_ConfidenceRange ==
  \A c \in Callers :
    /\ \A n \in 2..Done : Ran(c, n) =>
         out[c][Operations[n]].confidence >= 0 /\ out[c][Operations[n]].confidence <= ConfScale
    /\ Ran(c, 2) =>
         Personal(c).confidence =
           (IF Personal(c).data.email # "" THEN Tenths(3) ELSE 0)
           + (IF Personal(c).data.phone # "" THEN Tenths(2) ELSE 0)
           + (IF Personal(c).data.full_name # "" THEN Tenths(3) ELSE 0)
           + (IF Personal(c).data.location # "" THEN Tenths(2) ELSE 0)

\* C5 witness: all extractors have run on a text where the cap decides the projects
\* confidence and the identity confidence is the sum of a factor
C5_Witness ==
  \E c \in Callers :
    /\ Ran(c, Done)
    /\ Len(Projects(c).data) * Tenths(ProjectTenths) > ConfScale
    /\ Projects(c).confidence = ConfScale
    /\ Personal(c).confidence > 0

\* the lines of the section contents, in the order of the sections
ContentLines(sections) ==
  Flatten([j \in 1..Len(sections) |-> Split(sections[j][2], "\n")], 1, Len(sections))

\* the label under which the segmenter files line number j of lines
LabelOf(lines, j) ==
  LET heads == {q \in 1..(j - 1) : IsHeading(lines[q])}
  IN  IF heads = {} THEN "header" ELSE Lower(lines[MaxOf(heads)])

\* no label is used by two separate blocks of content lines
NoLabelTwice(lines) ==
  \A i, j \in 1..Len(lines) :
    (i < j /\ ~IsHeading(lines[i]) /\ ~IsHeading(lines[j]) /\ LabelOf(lines, i) = LabelOf(lines, j))
      => \A q \in i..j : ~IsHeading(lines[q])

\* C6 as stated: the section contents, concatenated in order, are exactly the
\* non-blank lines of the text, none lost, duplicated or reordered.
C6_RoundTrip ==
  \A c \in Callers : Ran(c, 1) => ContentLines(Sections(c)) = StrippedLines(job[c])

\* C6, amended: the section contents, concatenated in order, are exactly the stripped
\* non-blank lines that are not section headers, provided no label is used by two
\* separate blocks; in every case each content line is such a line of the text.
C6_RoundTripAmended ==
  \A c \in Callers : Ran(c, 1) =>
    LET lines == StrippedLines(job[c])
        body == Pick(lines, {j \in 1..Len(lines) : ~IsHeading(lines[j])})
    IN  /\ NoLabelTwice(lines) => ContentLines(Sections(c)) = body
        /\ Elems(ContentLines(Sections(c))) \subseteq Elems(body)

\* C6 witness: a text with a header, content before and after it, and a blank line
C6_Witness ==
  \E c \in Callers :
    /\ Ran(c, 1)
    /\ job[c] = ExampleResume
    /\ Len(Sections(c)) = 4
    /\ NoLabelTwice(StrippedLines(job[c]))

\* the skills that a result of extract_skills reports
Reported(r) == Elems(r.data.technical) \cup Elems(r.data.soft)

\* C7: every alias of the table, in every casing, mentioned as a whole token makes
\* extract_skills report the canonical lower-case taxonomy name and never the alias;
\* every alias maps to a skill of the taxonomy and every skill maps to itself.
C7_AliasNormalization ==
  LET skills == Elems(SkillsOf(skill_taxonomy))
  IN  /\ \A j \in 1..Len(skill_aliases) : skill_aliases[j][2] \in skills
      /\ \A k \in skills : k = Lower(k) /\ DictHas(skill_aliases, k) /\ DictGet(skill_aliases, k) = k
      /\ \A c \in Callers : Ran(c, 6) =>
           /\ Reported(Skills(c)) \subseteq skills
           /\ Reported(Skills(c)) \cap AliasKeys(skill_aliases) = {}
           /\ \A a \in AliasKeys(skill_aliases) :
                job[c] \in {Mention(w) : w \in Casings(a)} => DictGet(skill_aliases, a) \in Reported(Skills(c))
           /\ job[c] = ExampleAliases =>
                {"javascript", "react", "node.js"} \subseteq Elems(Skills(c).data.technical)

\* C7 witness: extract_skills has run on a mention of JS and reported javascript
C7_Witness ==
  \E c \in Callers :
    /\ Ran(c, 6)
    /\ job[c] = Mention("JS")
    /\ "javascript" \in Elems(Skills(c).data.technical)

\* C8: on a text that mentions Python, JavaScript and leadership, spelled so, the
\* technical list contains "Python" and "JavaScript" with that capitalisation, the
\* soft list contains "leadership" and the confidence is above 0.
C8_Capitalised ==
  \A c \in Callers :
    (Ran(c, 6) /\ job[c] \in {ExampleSkills, SkillsLine}) =>
      /\ "Python" \in Elems(Skills(c).data.technical)
      /\ "JavaScript" \in Elems(Skills(c).data.technical)
      /\ "leadership" \in Elems(Skills(c).data.soft)
      /\ Skills(c).confidence > 0

\* C9: any two runs on the identical input return identical records, every field
\* included.
C9_Idempotent ==
  \A i, j \in 1..Len(log) : log[i].file = log[j].file => log[i].response = log[j].response

\* the table a SkillExtractor has after construction
InitialAliases == build_skill_aliases(SKILL_TAXONOMY)

\* the results of the operations run alone
AloneTable ==
  {<<n, t, seed, Run(Operations[n], t, SKILL_TAXONOMY, InitialAliases, seed)>> :
     n \in 1..Done, t \in CallTexts, seed \in HashSeeds}
Alone(n, t, seed) == (CHOOSE x \in AloneTable : x[1] = n /\ x[2] = t /\ x[3] = seed)[4]

\* C10: no operation changes the taxonomy or the alias table, and under every
\* interleaving of the callers each operation returns what it returns run alone.
C10_NoSharedMutation ==
  /\ skill_taxonomy = SKILL_TAXONOMY
  /\ skill_aliases = InitialAliases
  /\ \A c \in Callers : \A n \in 1..Done :
       Ran(c, n) => out[c][Operations[n]] = Alone(n, job[c], hash_seed)

\* C10 witness: one caller has run extract_skills and extract_projects while another,
\* on another text, is between two operations
C10_Witness ==
  \E c, d \in Callers :
    /\ Ran(c, Done)
    /\ pc[d] \in 1..5
    /\ job[c] # job[d]

\* the empty default record of an operation, with confidence 0.0
EmptyResult(op) ==
  [data |-> CASE op = "extract_personal_info" -> EmptyPersonalInfo
              [] op = "extract_summary" -> ""
              [] op = "extract_skills" -> [technical |-> <<>>, soft |-> <<>>]
              [] OTHER -> <<>>,
   confidence |-> 0]

\* C11: an exception raised anywhere inside an extractor is caught there: the caller
\* gets the empty default record with confidence 0.0, whatever was gathered before,
\* and goes on to the next extractor.
C11_FaultContained ==
  [][\A c \in Callers, n \in 2..Done, at \in FaultPoints :
       FaultIn(c, n, at) => out'[c][Operations[n]] = EmptyResult(Operations[n]) /\ pc'[c] = n]_vars

\* the sum of the weights, and the weighted sum of the confidences sc
WeightSum == SumOver([j \in 1..Len(SectionNames) |-> DictGet(Weights, SectionNames[j])], Len(SectionNames))
WeightedSum(sc) ==
  SumOver([j \in 1..Len(SectionNames) |-> sc[SectionNames[j]] * DictGet(Weights, SectionNames[j])],
          Len(SectionNames))

Undecodable(file) ==
  FileExtension(file.filename) \notin {".pdf", ".docx"} \/ ~file.content.readable

\* C13: a request whose file has another extension than .pdf and .docx, or content
\* that cannot be decoded, is answered with status 400 and no parsed record, and
\* leaves the cache as it was.
C13_BadFile400 ==
  [][\A file \in Files :
       (Len(log') = Len(log) + 1 /\ log'[Len(log')].file = file /\ Undecodable(file)) =>
         /\ log'[Len(log')].response.status = 400
         /\ "data" \notin DOMAIN log'[Len(log')].response
         /\ cache' = cache]_vars

\* C13 witness: a parsed file is in the cache, and the request after it, an empty
\* .pdf, was answered with 400
C13_Witness ==
  /\ Len(log) = 2
  /\ log[1].response.status = 200
  /\ DOMAIN cache # {}
  /\ log[2].file.filename = "empty.pdf"
  /\ log[2].response.status = 400

\* the number of the line of s that position i is on
LineOf(s, i) == 1 + Cardinality({q \in 1..(i - 1) : At(s, q) = "\n"})

\* C14: the entries of extract_work_experience are in the order of their matched
\* lines in the text, whichever pattern matched them, and a line gives at most one
\* entry; "T at C (Jan 2020 - Present)" followed by "C - T (Mar 2019 - Jun 2019)"
\* gives the entry of 2020 first.
C14_SourceOrder ==
  \A c \in Callers : Ran(c, 4) =>
    LET exp_section == FindSection(job[c], ExpKeywords)
        matches == MatchesOf(JobPatterns, exp_section, 4)
    IN  /\ Len(Work(c).data) = Len(matches)
        /\ \A i, j \in 1..Len(matches) :
             i < j => LineOf(exp_section, matches[i].start) < LineOf(exp_section, matches[j].start)
        /\ job[c] = AtLine("Software Engineer", "Acme Corp", "Jan 2020", "Present") \o "\n"
                    \o DashLine("Acme Corp", "Intern", "Mar 2019", "Jun 2019") =>
             Len(Work(c).data) = 2 /\ Work(c).data[1].start_date = "01/2020"

\* C15: the result of extract_skills has set semantics: the technical and the soft
\* list are disjoint and without duplicates, every element is a name of the taxonomy,
\* and a skill is in the soft list exactly when it is of the soft_skills category.
C15_SkillSets ==
  LET names == Elems(SkillsOf(skill_taxonomy))
      softs == Elems(DictGet(skill_taxonomy, "soft_skills"))
  IN  \A c \in Callers : Ran(c, 6) =>
        /\ Elems(Skills(c).data.technical) \cap Elems(Skills(c).data.soft) = {}
        /\ Cardinality(Elems(Skills(c).data.technical)) = Len(Skills(c).data.technical)
        /\ Cardinality(Elems(Skills(c).data.soft)) = Len(Skills(c).data.soft)
        /\ Reported(Skills(c)) \subseteq names
        /\ Elems(Skills(c).data.soft) = Reported(Skills(c)) \cap softs

\* C15 witness: extract_skills has reported two technical skills and a soft one
C15_Witness ==
  \E c \in Callers :
    /\ Ran(c, 6)
    /\ Elems(Skills(c).data.technical) = {"python", "javascript"}
    /\ Skills(c).data.soft = <<"leadership">>

\* the heading labels of lines, and the number of the last heading line of a label
HeadingLabels(lines) == {Lower(lines[q]) : q \in {q \in 1..Len(lines) : IsHeading(lines[q])}}
LastHeading(lines, label) == MaxOf({q \in 1..Len(lines) : IsHeading(lines[q]) /\ Lower(lines[q]) = label})

\* the lines after line q up to the next heading line
BlockAfter(lines, q) ==
  LET next == {j \in (q + 1)..Len(lines) : IsHeading(lines[j])}
  IN  SubSeq(lines, q + 1, IF next = {} THEN Len(lines) ELSE MinOf(next) - 1)

\* the labels under which content lines are filed, and the last block of a label
ContentLabels(lines) ==
  {LabelOf(lines, j) : j \in {j \in 1..Len(lines) : ~IsHeading(lines[j])}}
LastBlock(lines, label) ==
  LET last == MaxOf({j \in 1..Len(lines) : ~IsHeading(lines[j]) /\ LabelOf(lines, j) = label})
      heads == {q \in 1..last : IsHeading(lines[q])}
  IN  SubSeq(lines, IF heads = {} THEN 1 ELSE MaxOf(heads) + 1, last)

Keys(d) == {d[j][1] : j \in 1..Len(d)}

\* C16 as stated: under a heading label the mapping holds exactly the content lines
\* that follow the last occurrence of the heading, never those of an earlier one; the
\* text before the first heading is under 'header'; the other labels are the
\* lower-cased heading lines.
C16_LastWriteWins ==
  \A c \in Callers : Ran(c, 1) =>
    LET lines == StrippedLines(job[c])
    IN  /\ Keys(Sections(c)) \subseteq HeadingLabels(lines) \cup {"header"}
        /\ \A label \in HeadingLabels(lines) :
             LET block == BlockAfter(lines, LastHeading(lines, label))
             IN  IF block = <<>> THEN label \notin Keys(Sections(c))
                 ELSE label \in Keys(Sections(c)) /\ DictGet(Sections(c), label) = Join("\n", block)

\* C16, amended: the labels of the mapping are those with at least one content line,
\* 'header' being the label of the lines before the first heading, and under each the
\* mapping holds exactly the lines of the last block of that label that has content,
\* not merged with an earlier one; a heading without content lines after it records
\* nothing and overwrites nothing.
C16_LastWriteWinsAmended ==
  \A c \in Callers : Ran(c, 1) =>
    LET lines == StrippedLines(job[c])
    IN  /\ Keys(Sections(c)) = ContentLabels(lines)
        /\ Keys(Sections(c)) \subseteq HeadingLabels(lines) \cup {"header"}
        /\ Cardinality(Keys(Sections(c))) = Len(Sections(c))
        /\ \A label \in ContentLabels(lines) :
             DictGet(Sections(c), label) = Join("\n", LastBlock(lines, label))

\* C16 witness: the segmenter has run on a text where SKILLS heads two blocks with
\* content, and the mapping holds the second
C16_Witness ==
  \E c \in Callers :
    /\ Ran(c, 1)
    /\ job[c] = ExampleSections
    /\ DictGet(Sections(c), "skills") = "Java"

\* C17: the name is looked for in the first 5 non-empty lines, blank lines not
\* counting: the first of them that passes the name test is full_name, its first and
\* last token first_name and last_name, and 0.3 is added; otherwise there is no name.
C17_NameInFirstFive ==
  \A c \in Callers : Ran(c, 2) =>
    LET first5 == Prefix(StrippedLines(job[c]), 5)
        at == FirstTrue([j \in 1..Len(first5) |-> IsNameLine(first5[j])])
    IN  IF at = 0
        THEN Personal(c).data.full_name = "" /\ Personal(c).data.first_name = ""
        ELSE /\ Personal(c).data.full_name = first5[at]
             /\ Personal(c).data.first_name = Words(first5[at])[1]
             /\ Personal(c).data.last_name = Words(first5[at])[Len(Words(first5[at]))]
             /\ Personal(c).confidence >= Tenths(3)

\* C18: extract_summary returns the first line of the first section whose label
\* contains summary, objective, about or profile, with 0.8; else the first line that
\* comes after the first contact-marker line, is longer than 50 characters and
\* mentions no section word, with 0.6; else '' with 0.3.  The confidence is one of
\* 0.8, 0.6, 0.3, 0.0 and the summary is non-empty exactly when it is 0.8 or 0.6.
C18_SummaryPaths ==
  \A c \in Callers : Ran(c, 3) =>
    LET at == FirstTrue([j \in 1..Len(Sections(c)) |-> AnyIn(SummaryKeywords, Sections(c)[j][1])])
        lines == StrippedLines(job[c])
        marks == {j \in 1..Len(lines) : AnyIn(ContactMarkers, Lower(lines[j]))}
        after == {j \in 1..Len(lines) : /\ marks # {}
                                        /\ j > MinOf(marks)
                                        /\ Len(lines[j]) > SummaryMinLen
                                        /\ ~AnyIn(SectionWords, Lower(lines[j]))}
    IN  /\ Summary(c) =
             IF at # 0
             THEN [data |-> Split(Sections(c)[at][2], "\n")[1], confidence |-> Tenths(8)]
             ELSE IF after # {} THEN [data |-> lines[MinOf(after)], confidence |-> Tenths(6)]
             ELSE [data |-> "", confidence |-> Tenths(3)]
        /\ Summary(c).confidence \in {Tenths(8), Tenths(6), Tenths(3), 0}
        /\ Summary(c).data # "" <=> Summary(c).confidence \in {Tenths(8), Tenths(6)}

\* C18 witness: extract_summary has taken the line after an e-mail line, with 0.6
C18_Witness ==
  \E c \in Callers :
    /\ Ran(c, 3)
    /\ Summary(c).confidence = Tenths(6)
    /\ Summary(c).data = AtLine("Software Engineer", "Acme Corp", "Jan 2020", "Present")

\* a line that holds a parenthesis and, somewhere after it, four digits in a row
HasYearAfterParen(line) ==
  \E p \in 1..Len(line) : \E q \in (p + 1)..(Len(line) - 3) :
    /\ At(line, p) \in {"(", ")"}
    /\ \A k \in q..(q + 3) : At(line, k) \in Digits

\* the bullets the claim describes for an entry whose matched text is context
ClaimedBullets(lines, context) ==
  LET entry == {j \in 1..Len(lines) : Contains(context, lines[j])}
      stop == {j \in 1..Len(lines) : /\ entry # {}
                                     /\ j > MinOf(entry)
                                     /\ j \notin entry
                                     /\ (HasYearAfterParen(lines[j]) \/ Len(lines[j]) < 10)}
      ok == {j \in 1..Len(lines) : /\ entry # {}
                                   /\ j > MinOf(entry)
                                   /\ j \notin entry
                                   /\ stop # {} => j < MinOf(stop)
                                   /\ Len(lines[j]) > 20
                                   /\ At(lines[j], 1) # "-"}
  IN  Prefix(Pick(lines, ok), 3)

NonSoftSkills ==
  UNION {Elems(SKILL_TAXONOMY[k][2]) : k \in {k \in 1..Len(SKILL_TAXONOMY) : SKILL_TAXONOMY[k][1] # "soft_skills"}}

\* C20: the tech_stack of every returned project holds the technical skills that
\* skill extraction finds in the description the project is returned with, all the
\* continuation lines included, and only skills of the taxonomy that are not soft.
C20_TechStackOfDescription ==
  \A c \in Callers : Ran(c, 7) =>
    \A i \in 1..Len(Projects(c).data) :
      LET project == Projects(c).data[i]
      IN  /\ Elems(project.tech_stack) =
               Elems(extract_tech_from_description(project.description, skill_taxonomy,
                                                   skill_aliases, hash_seed))
          /\ Elems(project.tech_stack) \subseteq NonSoftSkills

\* s[a..b] is a run of digits
DigitRun(s, a, b) == a <= b /\ \A k \in a..b : At(s, k) \in Digits

\* after position b of s come zero or more blanks and then w, in any case
FollowedBy(s, b, w) ==
  \E e \in b..(Len(s) - Len(w)) :
    /\ \A k \in (b + 1)..e : At(s, k) \in SpaceChars
    /\ Lower(SubSeq(s, e + 1, e + Len(w))) = w

DigitStarts(s) == {a \in 1..Len(s) : At(s, a) \in Digits}

\* the spans a..b of s that read '<float>' before CGPA or GPA
GpaSpans(s) ==
  {sp \in DigitStarts(s) \X DigitStarts(s) :
     /\ \E d \in (sp[1] + 1)..(sp[2] - 1) :
          At(s, d) = "." /\ DigitRun(s, sp[1], d - 1) /\ DigitRun(s, d + 1, sp[2])
     /\ (FollowedBy(s, sp[2], "cgpa") \/ FollowedBy(s, sp[2], "gpa"))}

\* the spans a..b of s that read '<int>' before a percent sign
PercentSpans(s) ==
  {sp \in DigitStarts(s) \X DigitStarts(s) :
     DigitRun(s, sp[1], sp[2]) /\ FollowedBy(s, sp[2], "%")}

\* the spans a..b of s that read a letter A or B, with its sign, after 'Grade:';
\* the first component is where 'Grade:' starts
LetterSpans(s) ==
  {sp \in (1..Len(s)) \X (1..Len(s)) \X (1..Len(s)) :
     /\ sp[1] + 5 < sp[2]
     /\ Lower(SubSeq(s, sp[1], sp[1] + 5)) = "grade:"
     /\ \A k \in (sp[1] + 6)..(sp[2] - 1) : At(s, k) \in SpaceChars
     /\ Lower(At(s, sp[2])) \in {"a", "b"}
     /\ sp[3] = IF sp[2] < Len(s) /\ At(s, sp[2] + 1) \in {"+", "-"} THEN sp[2] + 1 ELSE sp[2]}

\* the text of the leftmost span
Leftmost(s, spans) ==
  LET sp == CHOOSE x \in spans : \A y \in spans : x[1] <= y[1]
  IN  SubSeq(s, sp[Len(sp) - 1], sp[Len(sp)])

\* the grade the claim describes for a section text
ClaimedGrade(s) ==
  IF GpaSpans(s) # {} THEN Leftmost(s, GpaSpans(s))
  ELSE IF PercentSpans(s) # {} THEN Leftmost(s, PercentSpans(s))
  ELSE IF LetterSpans(s) # {} THEN Leftmost(s, LetterSpans(s))
  ELSE ""

AcceptedStarts(text) ==
  LET lines == StrippedLines(FindSection(text, ProjectKeywords))
  IN  {j \in 1..Len(lines) :
         LET ms == [p \in 1..2 |-> ReMatch(ProjectPatterns[p], ProjectGroups[p], lines[j], TRUE)]
             by == StartedBy(lines[j], ms)
         IN  by # 0 /\ ~IsDigit(ProjectName(lines[j], ms[by]))}

\* C22: extract_projects returns one entry for each line accepted as a project start
\* with a non-numeric name and none for any other line, so the count of entries, and
\* with it the confidence min(count * 0.4, 1.0), is the number of such lines; a line
\* that matches a pattern but fails the name validation adds nothing.
C22_OneEntryPerStart ==
  \A c \in Callers : Ran(c, 7) =>
    /\ Len(Projects(c).data) = Cardinality(AcceptedStarts(job[c]))
    /\ Projects(c).confidence =
         CountConfidence(Cardinality(AcceptedStarts(job[c])), ProjectTenths)
====
